---- MODULE Spec2Model ----
(***************************************************************************)
(* Packet capture subsystem of TextCast-TV                                 *)
(* (backend/services/packet_monitor.py).                                   *)
(*                                                                         *)
(* Request threads call start_monitor, stop_monitor and is_running on the  *)
(* module-level monitor state; every successful start_monitor spawns one   *)
(* daemon thread that runs _capture_loop.  The capture loop blocks in      *)
(* scapy.sniff (timeout 1), in the sink _handle_packet and in the retry    *)
(* backoff time.sleep(2); time is counted in whole time units by Tick.     *)
(* The loop thread's own computation takes no time, a request thread may   *)
(* be delayed between any two of its steps, except while it holds the      *)
(* state lock.                                                             *)
(*                                                                         *)
(* Spec follows the lifecycle of the monitor and leaves the content of the *)
(* frames out; CaptureSpec follows one capture loop from the return of its *)
(* start_monitor call, with the frames sniff delivers, the calls the sink  *)
(* _handle_packet makes to db_service.log_packet and to socketio.emit, and *)
(* the error lines the loop and the sink log.  RestartSpec lets the main    *)
(* thread stop and start the monitor while the loops handle frames.        *)
(* RouteSpec adds the request handlers of backend/routes/cast_routes.py    *)
(* (connect, disconnect, send, current-text) with the state of             *)
(* backend/services/cast_service.py they use; the handlers run on the      *)
(* request threads and call the monitor's three functions.                 *)
(* UninjectedSpec is CaptureSpec started before set_socketio was called.   *)
(* LogSpec follows concurrent calls of db_service.log_message for one      *)
(* session, StatsSpec the packet_logs table with db_service.log_packet,    *)
(* get_packet_stats and the route of backend/routes/monitor_routes.py.     *)
(***************************************************************************)
EXTENDS Integers, Naturals, FiniteSets, Sequences, TLC

\* ------------------------------------------------------------------ bounds
MaxLoops == 2
NumCallers == 2
MaxCalls == 3
MaxFrames == 2
MaxRetries == 2
MaxRequests == 3
MaxMessages == 3
MaxPackets == 3
MaxClock == 2

\* ------------------------------------------------------- program constants
SNIFF_TIMEOUT == 1
RETRY_BACKOFF == 2
DefaultStopTimeout == 5
ExitStopTimeout == 3
DEFAULT_LIMIT == 20
MIN_LIMIT == 1
MAX_LIMIT == 100

Callers == 1..NumCallers
Loops == 1..MaxLoops
SessionIds == {7, 8}
StopTimeouts == {ExitStopTimeout, DefaultStopTimeout}
None == 0
TheApp == 1
TheSocketIO == 1
TheCast == 1

VARIABLES
    monitorThread,      \* _monitor_thread: None or the handle of a loop thread
    stopEvent,          \* _stop_event: None or a threading.Event
    currentSessionId,   \* _current_session_id
    appRef,             \* _app
    stateLock,          \* _state_lock: None or the request thread holding it
    eventSet,           \* the flag of every threading.Event created so far
    nLoops,             \* number of threads (and events) created so far
    lpc,                \* position of every capture loop thread
    lToken,             \* stop_event argument of the loop
    lSession,           \* session_id argument of the loop
    lTimer,             \* time left in the loop's blocking call
    lExit,              \* how the loop left _capture_loop: the return after
                        \* the import, one of the two breaks, the while test
    pc,                 \* position of every request thread
    cThread,            \* stop_monitor's local 'thread'
    cEvent,             \* stop_monitor's local 'event'
    joinLeft,           \* time left of thread.join(timeout=timeout)
    ret,                \* value returned by the request thread's last call
    warned,             \* the last stop_monitor logged "did not stop within"
    nCalls,             \* number of calls the request threads have made
    socketio,           \* _socketio: None or the injected SocketIO instance
    packet,             \* the frame sniff handed to prn last
    hpc,                \* position of the loop thread inside _handle_packet
    nFrames,            \* number of frames sniff has handed to the loop
    calls,              \* calls and error lines of the sink for that frame
    tally,              \* what the sink has done over the loop's lifetime
    loopLog,            \* error lines logged by _capture_loop itself
    cast,               \* cast_service._cast: None or the Chromecast object
    castPageSent,       \* cast_routes._cast_page_sent
    currentText,        \* cast_service._current_text
    activeSessionId,    \* cast_routes._active_session_id
    nSessions,          \* rows of the sessions table created so far
    nMessages,          \* rows of the messages table created so far
    tvCalls,            \* calls made to the TV (connect, cast page) so far
    tvOn,               \* the TV answers on its Cast port
    dbUp,               \* the database accepts commits
    rpc,                \* position of every request thread in its handler
    req,                \* route of the request the thread handles or
                        \* handled last
    body,               \* what request.get_json(silent=True) gave it
    sess,               \* the handler's session id in hand: session.id,
                        \* then the argument of start_monitor
    resp,               \* the response to that request, once it is made
    nRequests,          \* number of requests received so far
    totalMessages,      \* sessions.total_messages of the session's row
    messageRows,        \* committed rows of messages with that session_id
    lmpc,               \* position of every thread inside log_message
    lmSeen,             \* session.total_messages as the thread's ORM
                        \* session loaded it
    packetLogs,         \* committed rows of packet_logs, in insertion order
    dbClock,            \* _utcnow() as the timestamp column stores it
    spc,                \* position of the thread inside get_packet_stats
    stats               \* the statistics request: its arguments, and the
                        \* answer as far as it is computed

mgr == <<monitorThread, stopEvent, currentSessionId, appRef>>
loopVars == <<lpc, lToken, lSession, lTimer, lExit>>
callVars == <<pc, cThread, cEvent, joinLeft, ret, warned>>
vars == <<monitorThread, stopEvent, currentSessionId, appRef, stateLock,
          eventSet, nLoops, lpc, lToken, lSession, lTimer, lExit,
          pc, cThread, cEvent, joinLeft, ret, warned, nCalls,
          socketio, packet, hpc, nFrames, calls, tally, loopLog,
          cast, castPageSent, currentText, activeSessionId, nSessions,
          nMessages, tvCalls, tvOn, dbUp, rpc, req, body, sess, resp,
          nRequests, totalMessages, messageRows, lmpc, lmSeen, packetLogs,
          dbClock, spc, stats>>
sinkVars == <<socketio, packet, hpc, nFrames, calls, tally, loopLog>>
castVars == <<cast, castPageSent, currentText, activeSessionId, nSessions,
              nMessages, tvCalls>>
envVars == <<tvOn, dbUp>>
reqVars == <<rpc, req, body, sess, resp, nRequests>>
logVars == <<totalMessages, messageRows, lmpc, lmSeen>>
statVars == <<packetLogs, dbClock, spc, stats>>
dbVars == <<logVars, statVars>>
routeVars == <<castVars, envVars, reqVars, dbVars>>
monVars == <<mgr, stateLock, eventSet, nLoops, loopVars, callVars, nCalls>>

\* threading.Thread.is_alive()
IsAlive(l) == l # None /\ lpc[l] \notin {"none", "dead"}

\* threading.Event.is_set() of the loop's own stop_event
TokenSet(l) == eventSet[lToken[l]]

AliveLoops == {l \in Loops : IsAlive(l)}

\* ------------------------------------------------------------------ frames

\* ip_layer.proto of the frames: TCP is 6, GRE is 47
Protos == {6, 47}
\* ip_layer.src and ip_layer.dst: the peer and the controller
PeerAddr == "203.0.113.50"
ControllerAddr == "10.0.0.5"
\* len(packet)
Sizes == {512}

\* frames with an IP layer: which of the layers TCP, UDP and ICMP haslayer
\* finds, the protocol number, the addresses and the length
IPFrames ==
    [ip : {TRUE}, tcp : BOOLEAN, udp : BOOLEAN, icmp : BOOLEAN,
     proto : Protos, src : {PeerAddr}, dst : {ControllerAddr}, size : Sizes,
     bad : {FALSE}]

\* a frame without IP layer (ARP)
ArpFrame ==
    [ip |-> FALSE, tcp |-> FALSE, udp |-> FALSE, icmp |-> FALSE, proto |-> 0,
     src |-> "", dst |-> "", size |-> 42, bad |-> FALSE]

\* a frame on which the accessors of _handle_packet raise
MalformedFrame ==
    [ip |-> TRUE, tcp |-> FALSE, udp |-> FALSE, icmp |-> FALSE, proto |-> 0,
     src |-> "", dst |-> "", size |-> 0, bad |-> TRUE]

Frames == IPFrames \cup {ArpFrame, MalformedFrame}

\* no frame handed to prn yet
NoPacket ==
    [ip |-> FALSE, tcp |-> FALSE, udp |-> FALSE, icmp |-> FALSE, proto |-> 0,
     src |-> "", dst |-> "", size |-> 0, bad |-> FALSE]

\* str() of one decimal digit
Digit(d) ==
    CASE d = 0 -> "0" [] d = 1 -> "1" [] d = 2 -> "2" [] d = 3 -> "3"
      [] d = 4 -> "4" [] d = 5 -> "5" [] d = 6 -> "6" [] d = 7 -> "7"
      [] d = 8 -> "8" [] d = 9 -> "9"

\* str(n) of a natural number
RECURSIVE Str(_)
Str(n) == IF n < 10 THEN Digit(n) ELSE Str(n \div 10) \o Digit(n % 10)

\* the UDP test first
ProtocolUdpFirst(f) ==
    IF f.udp THEN "UDP"
    ELSE IF f.tcp THEN "TCP"
    ELSE IF f.icmp THEN "ICMP"
    ELSE Str(f.proto)

\* "Determine protocol name": TCP, then UDP, then ICMP, else str(proto)
Protocol(f) ==
    IF f.tcp THEN "TCP"
    ELSE IF f.udp THEN "UDP"
    ELSE IF f.icmp THEN "ICMP"
    ELSE Str(f.proto)

\* frames past the IP test, calls of log_packet and of emit, and whether
\* any call of log_packet or of emit has returned without raising
ZeroTally ==
    [matched |-> 0, records |-> 0, publishes |-> 0, dbReturned |-> FALSE,
     emitReturned |-> FALSE]
ZeroLoopLog == [permission |-> 0, retry |-> 0]

\* the sink part of the state before any frame
\* ------------------------------------------------- requests and responses

\* what str.strip() removes at both ends
Whitespace == {" ", "\t"}

RECURSIVE LStrip(_)
LStrip(chars) ==
    IF chars # <<>> /\ Head(chars) \in Whitespace
    THEN LStrip(Tail(chars))
    ELSE chars

RECURSIVE RStrip(_)
RStrip(chars) ==
    IF chars # <<>> /\ chars[Len(chars)] \in Whitespace
    THEN RStrip(SubSeq(chars, 1, Len(chars) - 1))
    ELSE chars

\* str.strip(): a text is the sequence of its characters
Strip(chars) == RStrip(LStrip(chars))

\* JSON values of the "text" member: a string or null
StringValue(chars) == [kind |-> "string", chars |-> chars]
NullValue == [kind |-> "null", chars |-> <<>>]

\* str(data["text"])
TextOf(v) == IF v.kind = "null" THEN <<"N", "o", "n", "e">> ELSE v.chars

\* request.get_json(silent=True): None, or the JSON value of the body with
\* its truth value and whether '"text" in data' holds
NoJson ==
    [kind |-> "none", truthy |-> FALSE, contains |-> FALSE,
     value |-> NullValue]
EmptyObject ==
    [kind |-> "object", truthy |-> FALSE, contains |-> FALSE,
     value |-> NullValue]
OtherObject ==
    [kind |-> "object", truthy |-> TRUE, contains |-> FALSE,
     value |-> NullValue]
TextObject(v) ==
    [kind |-> "object", truthy |-> TRUE, contains |-> TRUE, value |-> v]
TextArray ==
    [kind |-> "array", truthy |-> TRUE, contains |-> TRUE,
     value |-> NullValue]
NumberBody ==
    [kind |-> "number", truthy |-> TRUE, contains |-> FALSE,
     value |-> NullValue]

\* the request bodies, by name, and the value get_json gives for each
NoBody == "no JSON"
Bodies ==
    {NoBody, "{}", "{msg: hi}", "[text]", "5", "{text: null}", "{text: ''}",
     "{text: ' \\t'}", "{text: ' hi '}"}

Json(b) ==
    CASE b = NoBody -> NoJson
      [] b = "{}" -> EmptyObject
      [] b = "{msg: hi}" -> OtherObject
      [] b = "[text]" -> TextArray
      [] b = "5" -> NumberBody
      [] b = "{text: null}" -> TextObject(NullValue)
      [] b = "{text: ''}" -> TextObject(StringValue(<<>>))
      [] b = "{text: ' \\t'}" -> TextObject(StringValue(<<" ", "\t">>))
      [] b = "{text: ' hi '}" ->
            TextObject(StringValue(<<" ", "h", "i", " ">>))

\* the id the database gives the n-th session row of this run
SessionId(n) == 6 + n
DbSessionIds == {SessionId(n) : n \in 1..MaxRequests}

NoResp == [code |-> 0, message_id |-> None, text |-> <<>>]

\* the statistics request that has not been made
NoStats ==
    [code |-> 0, session_id |-> None, limit |-> 0, total_packets |-> 0,
     total_bytes |-> 0, protocol_breakdown |-> [k \in {} |-> 0],
     recent_packets |-> <<>>]

\* the tables behind the routes: the session's row as create_session wrote
\* it (total_messages=0), no message, no packet, nobody inside db_service
DbInit ==
    /\ totalMessages = 0
    /\ messageRows = 0
    /\ lmpc = [c \in Callers |-> "idle"]
    /\ lmSeen = [c \in Callers |-> 0]
    /\ packetLogs = <<>>
    /\ dbClock = 1
    /\ spc = "idle"
    /\ stats = NoStats

\* module state of cast_routes.py and cast_service.py at import, no request
\* received, TV and database in order
RouteInit ==
    /\ cast = None
    /\ castPageSent = FALSE
    /\ currentText = <<>>
    /\ activeSessionId = None
    /\ nSessions = 0
    /\ nMessages = 0
    /\ tvCalls = 0
    /\ tvOn = TRUE
    /\ dbUp = TRUE
    /\ rpc = [c \in Callers |-> "idle"]
    /\ req = [c \in Callers |-> "none"]
    /\ body = [c \in Callers |-> NoBody]
    /\ sess = [c \in Callers |-> None]
    /\ resp = [c \in Callers |-> NoResp]
    /\ nRequests = 0
    /\ DbInit

SinkInit ==
    /\ socketio = TheSocketIO
    /\ packet = [l \in Loops |-> NoPacket]
    /\ hpc = [l \in Loops |-> "idle"]
    /\ nFrames = [l \in Loops |-> 0]
    /\ calls = [l \in Loops |-> <<>>]
    /\ tally = [l \in Loops |-> ZeroTally]
    /\ loopLog = [l \in Loops |-> ZeroLoopLog]

Init ==
    /\ monitorThread = None
    /\ stopEvent = None
    /\ currentSessionId = None
    /\ appRef = None
    /\ stateLock = None
    /\ eventSet = [e \in Loops |-> FALSE]
    /\ nLoops = 0
    /\ lpc = [l \in Loops |-> "none"]
    /\ lToken = [l \in Loops |-> None]
    /\ lSession = [l \in Loops |-> None]
    /\ lTimer = [l \in Loops |-> 0]
    /\ lExit = [l \in Loops |-> "none"]
    /\ pc = [c \in Callers |-> "idle"]
    /\ cThread = [c \in Callers |-> None]
    /\ cEvent = [c \in Callers |-> None]
    /\ joinLeft = [c \in Callers |-> 0]
    /\ ret = [c \in Callers |-> "none"]
    /\ warned = [c \in Callers |-> FALSE]
    /\ nCalls = 0
    /\ SinkInit
    /\ RouteInit

\* =========================================================== start_monitor

\* start_monitor(session_id, app): "with _state_lock:" entered
StartAcquire(c) ==
    /\ pc[c] = "idle"
    /\ nCalls < MaxCalls
    /\ nCalls' = nCalls + 1
    /\ stateLock = None
    /\ nLoops < MaxLoops
    /\ stateLock' = c
    /\ pc' = [pc EXCEPT ![c] = "start_locked"]
    /\ ret' = [ret EXCEPT ![c] = "none"]
    /\ warned' = [warned EXCEPT ![c] = FALSE]
    /\ UNCHANGED <<mgr, eventSet, nLoops, loopVars, cThread, cEvent, joinLeft>>

\* AlreadyRunning without the is_alive() test
AlreadyRunningHandleOnly == monitorThread # None

\* the guard of start_monitor: a loop is already running
AlreadyRunning == monitorThread # None /\ IsAlive(monitorThread)

\* stop_event = threading.Event(): a new object on every call, not set
FreshEvent == nLoops + 1

\* body of start_monitor under the lock, up to the return; sid is the
\* session_id argument of the call
StartBody(c, sid) ==
    /\ pc[c] = "start_locked"
    /\ stateLock = c
    /\ IF AlreadyRunning
       THEN /\ ret' = [ret EXCEPT ![c] = "False"]
            /\ UNCHANGED <<mgr, nLoops, loopVars>>
       ELSE LET t == nLoops + 1
                e == FreshEvent
            IN  /\ stopEvent' = e
                /\ currentSessionId' = sid
                /\ appRef' = TheApp
                /\ monitorThread' = t
                /\ nLoops' = t
                /\ lpc' = [lpc EXCEPT ![t] = "import"]
                /\ lToken' = [lToken EXCEPT ![t] = e]
                /\ lSession' = [lSession EXCEPT ![t] = sid]
                /\ ret' = [ret EXCEPT ![c] = "True"]
                /\ UNCHANGED <<lTimer, lExit>>
    /\ stateLock' = None
    /\ pc' = [pc EXCEPT ![c] = "idle"]
    /\ UNCHANGED <<eventSet, cThread, cEvent, joinLeft, warned>>
    /\ UNCHANGED nCalls

\* ============================================================ stop_monitor

\* stop_monitor(timeout): first "with _state_lock:" entered
StopAcquire(c) ==
    /\ pc[c] = "idle"
    /\ nCalls < MaxCalls
    /\ nCalls' = nCalls + 1
    /\ stateLock = None
    /\ stateLock' = c
    /\ pc' = [pc EXCEPT ![c] = "stop_locked"]
    /\ ret' = [ret EXCEPT ![c] = "none"]
    /\ warned' = [warned EXCEPT ![c] = FALSE]
    /\ UNCHANGED <<mgr, eventSet, nLoops, loopVars, cThread, cEvent, joinLeft>>

\* StopRead that leaves the first locked block without releasing the lock
StopReadKeepsLock(c) ==
    /\ pc[c] = "stop_locked"
    /\ stateLock = c
    /\ cThread' = [cThread EXCEPT ![c] = monitorThread]
    /\ cEvent' = [cEvent EXCEPT ![c] = stopEvent]
    /\ pc' = [pc EXCEPT ![c] = "stop_check"]
    /\ UNCHANGED <<mgr, stateLock, eventSet, nLoops, loopVars, joinLeft, ret,
                   warned>>
    /\ UNCHANGED nCalls

\* thread = _monitor_thread; event = _stop_event; lock released
StopRead(c) ==
    /\ pc[c] = "stop_locked"
    /\ stateLock = c
    /\ cThread' = [cThread EXCEPT ![c] = monitorThread]
    /\ cEvent' = [cEvent EXCEPT ![c] = stopEvent]
    /\ stateLock' = None
    /\ pc' = [pc EXCEPT ![c] = "stop_check"]
    /\ UNCHANGED <<mgr, eventSet, nLoops, loopVars, joinLeft, ret, warned>>
    /\ UNCHANGED nCalls

\* NothingToStop without the is_alive() test
NothingToStopHandleOnly(c) == cThread[c] = None

\* "if thread is None or not thread.is_alive():"
NothingToStop(c) == cThread[c] = None \/ ~IsAlive(cThread[c])

\* the early return of stop_monitor, or on to event.set()
StopCheck(c) ==
    /\ pc[c] = "stop_check"
    /\ IF NothingToStop(c)
       THEN /\ pc' = [pc EXCEPT ![c] = "idle"]
            /\ cThread' = [cThread EXCEPT ![c] = None]
            /\ cEvent' = [cEvent EXCEPT ![c] = None]
            /\ ret' = [ret EXCEPT ![c] = "None"]
       ELSE /\ pc' = [pc EXCEPT ![c] = "stop_signal"]
            /\ UNCHANGED <<cThread, cEvent, ret>>
    /\ UNCHANGED <<mgr, stateLock, eventSet, nLoops, loopVars, joinLeft,
                   warned>>
    /\ UNCHANGED nCalls

\* StopSignal that sets the token stored in _stop_event at the time of the
\* call, not the one read together with the thread handle
StopSignalStoredEvent(c, timeout) ==
    /\ pc[c] = "stop_signal"
    /\ eventSet' = IF stopEvent # None
                   THEN [eventSet EXCEPT ![stopEvent] = TRUE]
                   ELSE eventSet
    /\ cEvent' = [cEvent EXCEPT ![c] = None]
    /\ joinLeft' = [joinLeft EXCEPT ![c] = timeout]
    /\ pc' = [pc EXCEPT ![c] = "stop_join"]
    /\ UNCHANGED <<mgr, stateLock, nLoops, loopVars, cThread, ret, warned>>
    /\ UNCHANGED nCalls

\* "if event is not None: event.set()", then thread.join(timeout=timeout)
\* begins; timeout is the argument of the call
StopSignal(c, timeout) ==
    /\ pc[c] = "stop_signal"
    /\ eventSet' = IF cEvent[c] # None
                   THEN [eventSet EXCEPT ![cEvent[c]] = TRUE]
                   ELSE eventSet
    /\ cEvent' = [cEvent EXCEPT ![c] = None]
    /\ joinLeft' = [joinLeft EXCEPT ![c] = timeout]
    /\ pc' = [pc EXCEPT ![c] = "stop_join"]
    /\ UNCHANGED <<mgr, stateLock, nLoops, loopVars, cThread, ret, warned>>
    /\ UNCHANGED nCalls

\* StopJoin that never logs the warning
StopJoinSilent(c) ==
    /\ pc[c] = "stop_join"
    /\ ~IsAlive(cThread[c]) \/ joinLeft[c] = 0
    /\ joinLeft' = [joinLeft EXCEPT ![c] = 0]
    /\ cThread' = [cThread EXCEPT ![c] = None]
    /\ pc' = [pc EXCEPT ![c] = "stop_joined"]
    /\ UNCHANGED <<mgr, stateLock, eventSet, nLoops, loopVars, cEvent, ret,
                   warned, nCalls>>

\* thread.join(timeout) returns: the thread ended or the timeout elapsed;
\* "if thread.is_alive():" logs the warning
StopJoin(c) ==
    /\ pc[c] = "stop_join"
    /\ ~IsAlive(cThread[c]) \/ joinLeft[c] = 0
    /\ warned' = [warned EXCEPT ![c] = IsAlive(cThread[c])]
    /\ joinLeft' = [joinLeft EXCEPT ![c] = 0]
    /\ cThread' = [cThread EXCEPT ![c] = None]
    /\ pc' = [pc EXCEPT ![c] = "stop_joined"]
    /\ UNCHANGED <<mgr, stateLock, eventSet, nLoops, loopVars, cEvent, ret>>
    /\ UNCHANGED nCalls

\* StopReacquire that clears the handle without taking the lock
StopReacquireUnlocked(c) ==
    /\ pc[c] = "stop_joined"
    /\ monitorThread' = None
    /\ pc' = [pc EXCEPT ![c] = "idle"]
    /\ ret' = [ret EXCEPT ![c] = "None"]
    /\ UNCHANGED <<stopEvent, currentSessionId, appRef, stateLock, eventSet,
                   nLoops, loopVars, cThread, cEvent, joinLeft, warned>>
    /\ UNCHANGED nCalls

\* second "with _state_lock:" entered
StopReacquire(c) ==
    /\ pc[c] = "stop_joined"
    /\ stateLock = None
    /\ stateLock' = c
    /\ pc' = [pc EXCEPT ![c] = "stop_clearing"]
    /\ UNCHANGED <<mgr, eventSet, nLoops, loopVars, cThread, cEvent,
                   joinLeft, ret, warned>>
    /\ UNCHANGED nCalls

\* StopClear that drops the whole stored session with the thread handle
StopClearDropsSession(c) ==
    /\ pc[c] = "stop_clearing"
    /\ stateLock = c
    /\ monitorThread' = None
    /\ stopEvent' = None
    /\ currentSessionId' = None
    /\ stateLock' = None
    /\ pc' = [pc EXCEPT ![c] = "idle"]
    /\ ret' = [ret EXCEPT ![c] = "None"]
    /\ UNCHANGED <<appRef, eventSet, nLoops, loopVars, cThread, cEvent,
                   joinLeft, warned, nCalls>>

\* _monitor_thread = None; lock released; stop_monitor returns
StopClear(c) ==
    /\ pc[c] = "stop_clearing"
    /\ stateLock = c
    /\ monitorThread' = None
    /\ stateLock' = None
    /\ pc' = [pc EXCEPT ![c] = "idle"]
    /\ ret' = [ret EXCEPT ![c] = "None"]
    /\ UNCHANGED <<stopEvent, currentSessionId, appRef, eventSet, nLoops,
                   loopVars, cThread, cEvent, joinLeft, warned>>
    /\ UNCHANGED nCalls

\* ============================================================== is_running

\* is_running(): "with _state_lock:" entered
IsRunningAcquire(c) ==
    /\ pc[c] = "idle"
    /\ nCalls < MaxCalls
    /\ nCalls' = nCalls + 1
    /\ stateLock = None
    /\ stateLock' = c
    /\ pc' = [pc EXCEPT ![c] = "running_locked"]
    /\ ret' = [ret EXCEPT ![c] = "none"]
    /\ warned' = [warned EXCEPT ![c] = FALSE]
    /\ UNCHANGED <<mgr, eventSet, nLoops, loopVars, cThread, cEvent, joinLeft>>

\* IsRunningValue without the is_alive() test
IsRunningValueHandleOnly == monitorThread # None

\* return _monitor_thread is not None and _monitor_thread.is_alive()
IsRunningValue == monitorThread # None /\ IsAlive(monitorThread)

IsRunningBody(c) ==
    /\ pc[c] = "running_locked"
    /\ stateLock = c
    /\ ret' = [ret EXCEPT ![c] = IF IsRunningValue THEN "True" ELSE "False"]
    /\ stateLock' = None
    /\ pc' = [pc EXCEPT ![c] = "idle"]
    /\ UNCHANGED <<mgr, eventSet, nLoops, loopVars, cThread, cEvent,
                   joinLeft, warned>>
    /\ UNCHANGED nCalls

\* =========================================================== _capture_loop

\* the loop thread leaves _capture_loop and ends; the arguments of an ended
\* thread are out of reach
Exit(l, why) ==
    /\ lpc' = [lpc EXCEPT ![l] = "dead"]
    /\ lExit' = [lExit EXCEPT ![l] = why]
    /\ lTimer' = [lTimer EXCEPT ![l] = 0]
    /\ lSession' = [lSession EXCEPT ![l] = None]

\* the loop thread moves to another position of _capture_loop
Goto(l, where, timer) ==
    /\ lpc' = [lpc EXCEPT ![l] = where]
    /\ lTimer' = [lTimer EXCEPT ![l] = timer]
    /\ UNCHANGED <<lExit, lSession>>

\* "from scapy.all import sniff": ImportError returns at once
LoopImport(l) ==
    /\ lpc[l] = "import"
    /\ \E ok \in BOOLEAN :
          IF ok THEN Goto(l, "while", 0) ELSE Exit(l, "import")
    /\ UNCHANGED <<mgr, stateLock, eventSet, nLoops, lToken, callVars>>
    /\ UNCHANGED nCalls

\* LoopWhile that restarts sniff without testing the token
LoopWhileTrue(l) ==
    /\ lpc[l] = "while"
    /\ Goto(l, "sniff", SNIFF_TIMEOUT)
    /\ UNCHANGED <<mgr, stateLock, eventSet, nLoops, lToken, callVars>>
    /\ UNCHANGED nCalls

\* "while not stop_event.is_set():" and the call of sniff(timeout=1)
LoopWhile(l) ==
    /\ lpc[l] = "while"
    /\ IF TokenSet(l) THEN Exit(l, "cancel")
                      ELSE Goto(l, "sniff", SNIFF_TIMEOUT)
    /\ UNCHANGED <<mgr, stateLock, eventSet, nLoops, lToken, callVars>>
    /\ UNCHANGED nCalls

\* sniff delivers a matched frame: prn=_handle_packet is called
SniffPacket(l) ==
    /\ lpc[l] = "sniff"
    /\ Goto(l, "handle", lTimer[l])
    /\ UNCHANGED <<mgr, stateLock, eventSet, nLoops, lToken, callVars>>
    /\ UNCHANGED nCalls

\* AfterPacket of a sniff called without stop_filter
AfterPacketNoStopFilter(l) == "sniff"

\* stop_filter=lambda _: stop_event.is_set(), evaluated after prn returned:
\* sniff returns when it is true and goes on sniffing when it is not
AfterPacket(l) == IF TokenSet(l) THEN "while" ELSE "sniff"

\* _handle_packet returns; sniff evaluates stop_filter for the frame
SinkReturn(l) ==
    /\ lpc[l] = "handle"
    /\ Goto(l, AfterPacket(l), IF TokenSet(l) THEN 0 ELSE lTimer[l])
    /\ UNCHANGED <<mgr, stateLock, eventSet, nLoops, lToken, callVars>>
    /\ UNCHANGED nCalls

\* sniff returns normally at its timeout
SniffTimeout(l) ==
    /\ lpc[l] = "sniff"
    /\ lTimer[l] = 0
    /\ Goto(l, "while", 0)
    /\ UNCHANGED <<mgr, stateLock, eventSet, nLoops, lToken, callVars>>
    /\ UNCHANGED nCalls

\* SniffPermissionError that retries after the backoff
SniffPermissionRetry(l) ==
    /\ lpc[l] = "sniff"
    /\ Goto(l, "backoff", RETRY_BACKOFF)
    /\ UNCHANGED <<mgr, stateLock, eventSet, nLoops, lToken, callVars>>
    /\ UNCHANGED nCalls

\* "except PermissionError:" logs and breaks
SniffPermissionError(l) ==
    /\ lpc[l] = "sniff"
    /\ Exit(l, "permission")
    /\ UNCHANGED <<mgr, stateLock, eventSet, nLoops, lToken, callVars>>
    /\ UNCHANGED nCalls

\* SniffOtherError without the test of the token
SniffOtherErrorAlwaysBackoff(l) ==
    /\ lpc[l] = "sniff"
    /\ Goto(l, "backoff", RETRY_BACKOFF)
    /\ UNCHANGED <<mgr, stateLock, eventSet, nLoops, lToken, callVars>>
    /\ UNCHANGED nCalls

\* "except Exception:": break when the token is set, else time.sleep(2)
SniffOtherError(l) ==
    /\ lpc[l] = "sniff"
    /\ IF TokenSet(l) THEN Exit(l, "break")
                      ELSE Goto(l, "backoff", RETRY_BACKOFF)
    /\ UNCHANGED <<mgr, stateLock, eventSet, nLoops, lToken, callVars>>
    /\ UNCHANGED nCalls

\* BackoffDone that gives up after the second retry
BackoffDoneGivesUp(l) ==
    /\ lpc[l] = "backoff"
    /\ lTimer[l] = 0
    /\ IF loopLog[l].retry >= 2 THEN Exit(l, "cancel") ELSE Goto(l, "while", 0)
    /\ UNCHANGED <<mgr, stateLock, eventSet, nLoops, lToken, callVars>>
    /\ UNCHANGED nCalls

\* time.sleep(2) returns; back to the while condition
BackoffDone(l) ==
    /\ lpc[l] = "backoff"
    /\ lTimer[l] = 0
    /\ Goto(l, "while", 0)
    /\ UNCHANGED <<mgr, stateLock, eventSet, nLoops, lToken, callVars>>
    /\ UNCHANGED nCalls

\* ==================================================================== time

\* the loop thread has a step to take that needs no time
LoopUrgent(l) ==
    \/ lpc[l] \in {"import", "while"}
    \/ lpc[l] \in {"sniff", "backoff"} /\ lTimer[l] = 0
    \/ hpc[l] \in {"parse", "done"}

\* a join that has to return now
JoinDue(c) ==
    pc[c] = "stop_join" /\ (joinLeft[c] = 0 \/ ~IsAlive(cThread[c]))

\* one time unit passes in sniff, in time.sleep, in the sink (in the calls
\* it makes, when they are followed) and in join
Tick ==
    /\ \A l \in Loops : ~LoopUrgent(l)
    /\ \A c \in Callers : ~JoinDue(c)
    /\ stateLock = None
    /\ AliveLoops # {}
    /\ lTimer' = [l \in Loops |->
                    IF lpc[l] \in {"sniff", "backoff"} THEN lTimer[l] - 1
                    ELSE IF lpc[l] = "handle" /\ lTimer[l] > 0
                         THEN lTimer[l] - 1
                    ELSE lTimer[l]]
    /\ joinLeft' = [c \in Callers |->
                    IF pc[c] = "stop_join" THEN joinLeft[c] - 1
                    ELSE joinLeft[c]]
    /\ UNCHANGED <<mgr, stateLock, eventSet, nLoops, lpc, lToken, lSession,
                   lExit, pc, cThread, cEvent, ret, warned>>
    /\ UNCHANGED nCalls

\* =========================================================== specification

CallerStep(c) ==
    \/ StartAcquire(c)
    \/ \E sid \in SessionIds : StartBody(c, sid)
    \/ StopAcquire(c)
    \/ StopRead(c)
    \/ StopCheck(c)
    \/ \E t \in StopTimeouts : StopSignal(c, t)
    \/ StopJoin(c)
    \/ StopReacquire(c)
    \/ StopClear(c)
    \/ IsRunningAcquire(c)
    \/ IsRunningBody(c)

LoopStep(l) ==
    \/ LoopImport(l)
    \/ LoopWhile(l)
    \/ SniffPacket(l)
    \/ SinkReturn(l)
    \/ SniffTimeout(l)
    \/ SniffPermissionError(l)
    \/ SniffOtherError(l)
    \/ BackoffDone(l)

Next ==
    \/ \E c \in Callers : CallerStep(c) /\ UNCHANGED <<sinkVars, routeVars>>
    \/ \E l \in Loops : LoopStep(l) /\ UNCHANGED <<sinkVars, routeVars>>
    \/ Tick /\ UNCHANGED <<sinkVars, routeVars>>

Spec == Init /\ [][Next]_vars

\* the steps of a request thread inside a "with _state_lock:" block
LockedStep(c) ==
    \/ \E sid \in SessionIds : StartBody(c, sid)
    \/ StopRead(c)
    \/ StopClear(c)
    \/ IsRunningBody(c)

\* the steps of stop_monitor between its two locked blocks that wait for
\* nothing
UnlockedStep(c) ==
    \/ StopCheck(c)
    \/ \E timeout \in StopTimeouts : StopSignal(c, timeout)

\* Spec with the scheduling the threads rely on: a runnable loop thread
\* runs, sniff returns at its timeout, the sink returns, time.sleep returns,
\* a thread holding the state lock releases it, a due join returns, and
\* time advances
FairSpec ==
    /\ Spec
    /\ \A l \in Loops :
          /\ WF_vars(LoopImport(l) /\ UNCHANGED <<sinkVars, routeVars>>)
          /\ WF_vars(LoopWhile(l) /\ UNCHANGED <<sinkVars, routeVars>>)
          /\ WF_vars(SniffTimeout(l) /\ UNCHANGED <<sinkVars, routeVars>>)
          /\ WF_vars(SinkReturn(l) /\ UNCHANGED <<sinkVars, routeVars>>)
          /\ WF_vars(BackoffDone(l) /\ UNCHANGED <<sinkVars, routeVars>>)
    /\ \A c \in Callers :
          /\ WF_vars(LockedStep(c) /\ UNCHANGED <<sinkVars, routeVars>>)
          /\ WF_vars(StopJoin(c) /\ UNCHANGED <<sinkVars, routeVars>>)
    /\ SF_vars(Tick /\ UNCHANGED <<sinkVars, routeVars>>)

\* FairSpec with request threads that run: a thread between the locked
\* blocks of stop_monitor goes on, and gets the lock once it stays free
FairCallSpec ==
    /\ FairSpec
    /\ \A c \in Callers :
          /\ WF_vars((UnlockedStep(c) \/ StopReacquire(c))
                        /\ UNCHANGED <<sinkVars, routeVars>>)

\* ========================================================== _handle_packet

\* LogPacketCall with the two addresses exchanged
LogPacketCallSwapped(l) ==
    [op |-> "log_packet", session_id |-> lSession[l],
     protocol |-> Protocol(packet[l]), source_ip |-> packet[l].dst,
     dest_ip |-> packet[l].src, size_bytes |-> packet[l].size]

\* LogPacketCall that reads the manager's _current_session_id when the frame
\* arrives instead of the loop's own argument
LogPacketCallStoredSession(l) ==
    [op |-> "log_packet", session_id |-> currentSessionId,
     protocol |-> Protocol(packet[l]), source_ip |-> packet[l].src,
     dest_ip |-> packet[l].dst, size_bytes |-> packet[l].size]

\* db_service.log_packet(session_id=..., protocol=..., source_ip=...,
\* dest_ip=..., size_bytes=...) as the sink of loop l calls it
LogPacketCall(l) ==
    [op |-> "log_packet", session_id |-> lSession[l],
     protocol |-> Protocol(packet[l]), source_ip |-> packet[l].src,
     dest_ip |-> packet[l].dst, size_bytes |-> packet[l].size]

\* _socketio.emit("packet_update", packet_data, namespace="/")
EmitCall(l) ==
    [op |-> "emit", event |-> "packet_update", session_id |-> lSession[l],
     protocol |-> Protocol(packet[l]), source_ip |-> packet[l].src,
     dest_ip |-> packet[l].dst, size_bytes |-> packet[l].size]

\* logger.error(...) inside _handle_packet
ErrorLine(what) == [op |-> "error", what |-> what]

\* DeliverPacket that does not wait for the sink to return
DeliverPacketAsync(l, f) ==
    /\ nFrames[l] < MaxFrames
    /\ lpc[l] \in {"sniff", "handle"}
    /\ Goto(l, "handle", lTimer[l])
    /\ packet' = [packet EXCEPT ![l] = f]
    /\ nFrames' = [nFrames EXCEPT ![l] = @ + 1]
    /\ calls' = [calls EXCEPT ![l] = <<>>]
    /\ hpc' = [hpc EXCEPT ![l] = "parse"]
    /\ UNCHANGED <<mgr, stateLock, eventSet, nLoops, lToken, callVars>>
    /\ UNCHANGED <<nCalls, socketio, tally, loopLog>>

\* sniff hands frame f to prn: _handle_packet(pkt, session_id, app) starts
DeliverPacket(l, f) ==
    /\ nFrames[l] < MaxFrames
    /\ SniffPacket(l)
    /\ packet' = [packet EXCEPT ![l] = f]
    /\ nFrames' = [nFrames EXCEPT ![l] = @ + 1]
    /\ calls' = [calls EXCEPT ![l] = <<>>]
    /\ hpc' = [hpc EXCEPT ![l] = "parse"]
    /\ UNCHANGED <<socketio, tally, loopLog>>

\* HandleParse without the broad try: the failure leaves prn and sniff and
\* is caught by the loop's "except Exception"
HandleParseUnguarded(l) ==
    /\ lpc[l] = "handle"
    /\ hpc[l] = "parse"
    /\ IF packet[l].bad
       THEN /\ Goto(l, "backoff", RETRY_BACKOFF)
            /\ hpc' = [hpc EXCEPT ![l] = "idle"]
            /\ UNCHANGED <<calls, tally, lToken>>
       ELSE IF ~packet[l].ip
       THEN /\ hpc' = [hpc EXCEPT ![l] = "done"]
            /\ UNCHANGED <<calls, tally, loopVars>>
       ELSE /\ hpc' = [hpc EXCEPT ![l] = "db"]
            /\ tally' = [tally EXCEPT ![l].matched = @ + 1]
            /\ UNCHANGED <<calls, loopVars>>
    /\ UNCHANGED <<mgr, stateLock, eventSet, nLoops, callVars>>
    /\ UNCHANGED <<nCalls, socketio, packet, nFrames, loopLog>>

\* HandleParse of a sink that publishes a matched frame before the DB write
HandleParseEmitFirst(l) ==
    /\ lpc[l] = "handle"
    /\ hpc[l] = "parse"
    /\ IF packet[l].bad
       THEN /\ calls' = [calls EXCEPT ![l] = Append(@, ErrorLine("handle"))]
            /\ hpc' = [hpc EXCEPT ![l] = "done"]
            /\ UNCHANGED tally
       ELSE IF ~packet[l].ip
       THEN /\ hpc' = [hpc EXCEPT ![l] = "done"]
            /\ UNCHANGED <<calls, tally>>
       ELSE /\ hpc' = [hpc EXCEPT ![l] = "emit"]
            /\ tally' = [tally EXCEPT ![l].matched = @ + 1]
            /\ UNCHANGED calls
    /\ UNCHANGED <<mgr, stateLock, eventSet, nLoops, loopVars, callVars>>
    /\ UNCHANGED <<nCalls, socketio, packet, nFrames, loopLog>>

\* HandleParse without the IP test
HandleParseNoIpTest(l) ==
    /\ lpc[l] = "handle"
    /\ hpc[l] = "parse"
    /\ IF packet[l].bad
       THEN /\ calls' = [calls EXCEPT ![l] = Append(@, ErrorLine("handle"))]
            /\ hpc' = [hpc EXCEPT ![l] = "done"]
            /\ UNCHANGED tally
       ELSE /\ hpc' = [hpc EXCEPT ![l] = "db"]
            /\ tally' = [tally EXCEPT ![l].matched = @ + 1]
            /\ UNCHANGED calls
    /\ UNCHANGED <<mgr, stateLock, eventSet, nLoops, loopVars, callVars>>
    /\ UNCHANGED <<nCalls, socketio, packet, nFrames, loopLog>>

\* from the IP test to the protocol name: a frame without IP layer returns,
\* an accessor that raises ends in the broad "except Exception"
HandleParse(l) ==
    /\ lpc[l] = "handle"
    /\ hpc[l] = "parse"
    /\ IF packet[l].bad
       THEN /\ calls' = [calls EXCEPT ![l] = Append(@, ErrorLine("handle"))]
            /\ hpc' = [hpc EXCEPT ![l] = "done"]
            /\ UNCHANGED tally
       ELSE IF ~packet[l].ip
       THEN /\ hpc' = [hpc EXCEPT ![l] = "done"]
            /\ UNCHANGED <<calls, tally>>
       ELSE /\ hpc' = [hpc EXCEPT ![l] = "db"]
            /\ tally' = [tally EXCEPT ![l].matched = @ + 1]
            /\ UNCHANGED calls
    /\ UNCHANGED <<mgr, stateLock, eventSet, nLoops, loopVars, callVars>>
    /\ UNCHANGED <<nCalls, socketio, packet, nFrames, loopLog>>

\* the DB write in its own try: log_packet is called, and when it (or the
\* app context) raises the error is logged and the sink goes on
HandlePersist(l, ok) ==
    /\ lpc[l] = "handle"
    /\ hpc[l] = "db"
    /\ calls' = [calls EXCEPT ![l] =
                    IF ok THEN Append(@, LogPacketCall(l))
                    ELSE Append(Append(@, LogPacketCall(l)), ErrorLine("db"))]
    /\ tally' = [tally EXCEPT ![l].records = @ + 1,
                              ![l].dbReturned = @ \/ ok]
    /\ hpc' = [hpc EXCEPT ![l] = "emit"]
    /\ UNCHANGED <<mgr, stateLock, eventSet, nLoops, loopVars, callVars>>
    /\ UNCHANGED <<nCalls, socketio, packet, nFrames, loopLog>>

\* HandleEmit reached only when log_packet did not raise
HandleEmitUnlessDbFailed(l, ok) ==
    /\ lpc[l] = "handle"
    /\ hpc[l] = "emit"
    /\ IF socketio # None /\ calls[l][Len(calls[l])].op # "error"
       THEN /\ calls' = [calls EXCEPT ![l] =
                    IF ok THEN Append(@, EmitCall(l))
                    ELSE Append(Append(@, EmitCall(l)), ErrorLine("emit"))]
            /\ tally' = [tally EXCEPT ![l].publishes = @ + 1,
                              ![l].emitReturned = @ \/ ok]
       ELSE UNCHANGED <<calls, tally>>
    /\ hpc' = [hpc EXCEPT ![l] = "done"]
    /\ UNCHANGED <<mgr, stateLock, eventSet, nLoops, loopVars, callVars>>
    /\ UNCHANGED <<nCalls, socketio, packet, nFrames, loopLog>>

\* HandleEmit without its own try: the broad handler logs the failure
HandleEmitUnguarded(l, ok) ==
    /\ lpc[l] = "handle"
    /\ hpc[l] = "emit"
    /\ IF socketio # None
       THEN /\ calls' = [calls EXCEPT ![l] =
                    IF ok THEN Append(@, EmitCall(l))
                    ELSE Append(Append(@, EmitCall(l)), ErrorLine("handle"))]
            /\ tally' = [tally EXCEPT ![l].publishes = @ + 1,
                              ![l].emitReturned = @ \/ ok]
       ELSE UNCHANGED <<calls, tally>>
    /\ hpc' = [hpc EXCEPT ![l] = "done"]
    /\ UNCHANGED <<mgr, stateLock, eventSet, nLoops, loopVars, callVars>>
    /\ UNCHANGED <<nCalls, socketio, packet, nFrames, loopLog>>

\* HandleEmit without the "is not None" test: None.emit raises, and the
\* emit's own handler logs it
HandleEmitNoNoneTest(l, ok) ==
    /\ lpc[l] = "handle"
    /\ hpc[l] = "emit"
    /\ IF socketio # None
       THEN /\ calls' = [calls EXCEPT ![l] =
                    IF ok THEN Append(@, EmitCall(l))
                    ELSE Append(Append(@, EmitCall(l)), ErrorLine("emit"))]
            /\ tally' = [tally EXCEPT ![l].publishes = @ + 1,
                              ![l].emitReturned = @ \/ ok]
       ELSE /\ calls' = [calls EXCEPT ![l] = Append(@, ErrorLine("emit"))]
            /\ UNCHANGED tally
    /\ hpc' = [hpc EXCEPT ![l] = "done"]
    /\ UNCHANGED <<mgr, stateLock, eventSet, nLoops, loopVars, callVars>>
    /\ UNCHANGED <<nCalls, socketio, packet, nFrames, loopLog>>

\* "if _socketio is not None:" and the emit in its own try
HandleEmit(l, ok) ==
    /\ lpc[l] = "handle"
    /\ hpc[l] = "emit"
    /\ IF socketio # None
       THEN /\ calls' = [calls EXCEPT ![l] =
                    IF ok THEN Append(@, EmitCall(l))
                    ELSE Append(Append(@, EmitCall(l)), ErrorLine("emit"))]
            /\ tally' = [tally EXCEPT ![l].publishes = @ + 1,
                              ![l].emitReturned = @ \/ ok]
       ELSE UNCHANGED <<calls, tally>>
    /\ hpc' = [hpc EXCEPT ![l] = "done"]
    /\ UNCHANGED <<mgr, stateLock, eventSet, nLoops, loopVars, callVars>>
    /\ UNCHANGED <<nCalls, socketio, packet, nFrames, loopLog>>

\* _handle_packet returns None to sniff; its locals are gone
HandleReturn(l) ==
    /\ hpc[l] = "done"
    /\ SinkReturn(l)
    /\ hpc' = [hpc EXCEPT ![l] = "idle"]
    /\ packet' = [packet EXCEPT ![l] = NoPacket]
    /\ calls' = [calls EXCEPT ![l] = <<>>]
    /\ UNCHANGED <<socketio, nFrames, tally, loopLog>>

\* "except PermissionError:" with its logger.error
CapturePermissionError(l) ==
    /\ SniffPermissionError(l)
    /\ loopLog' = [loopLog EXCEPT ![l].permission = @ + 1]
    /\ UNCHANGED <<socketio, packet, hpc, nFrames, calls, tally>>

\* "except Exception:" with its logger.error when the token is not set
CaptureOtherError(l) ==
    /\ loopLog[l].retry < MaxRetries
    /\ SniffOtherError(l)
    /\ loopLog' = [loopLog EXCEPT ![l].retry =
                        IF TokenSet(l) THEN @ ELSE @ + 1]
    /\ UNCHANGED <<socketio, packet, hpc, nFrames, calls, tally>>

\* one step of the capture loop thread, the sink included
CaptureStep(l) ==
    \/ LoopImport(l) /\ UNCHANGED <<sinkVars, routeVars>>
    \/ LoopWhile(l) /\ UNCHANGED <<sinkVars, routeVars>>
    \/ \E f \in Frames : DeliverPacket(l, f) /\ UNCHANGED routeVars
    \/ HandleParse(l) /\ UNCHANGED routeVars
    \/ \E ok \in BOOLEAN : HandlePersist(l, ok) /\ UNCHANGED routeVars
    \/ \E ok \in BOOLEAN : HandleEmit(l, ok) /\ UNCHANGED routeVars
    \/ HandleReturn(l) /\ UNCHANGED routeVars
    \/ SniffTimeout(l) /\ UNCHANGED <<sinkVars, routeVars>>
    \/ CapturePermissionError(l) /\ UNCHANGED routeVars
    \/ CaptureOtherError(l) /\ UNCHANGED routeVars
    \/ BackoffDone(l) /\ UNCHANGED <<sinkVars, routeVars>>

\* the thread that runs the exit hooks of the process
MainThread == 1

\* one step of the exit hook packet_monitor.stop_monitor(timeout=3.0)
AtExit ==
    \/ StopAcquire(MainThread)
    \/ StopRead(MainThread)
    \/ StopCheck(MainThread)
    \/ StopSignal(MainThread, ExitStopTimeout)
    \/ StopJoin(MainThread)
    \/ StopReacquire(MainThread)
    \/ StopClear(MainThread)

\* the manager, the loop and the callers when start_monitor(sid, app), called
\* by request thread 1 on the state after construction, has returned True;
\* the one call still to come is the exit hook
MonitorStarted ==
    /\ \E sid \in SessionIds :
          /\ currentSessionId = sid
          /\ lSession = [l \in Loops |-> IF l = 1 THEN sid ELSE None]
    /\ monitorThread = 1
    /\ stopEvent = 1
    /\ appRef = TheApp
    /\ stateLock = None
    /\ eventSet = [e \in Loops |-> FALSE]
    /\ nLoops = 1
    /\ lpc = [l \in Loops |-> IF l = 1 THEN "import" ELSE "none"]
    /\ lToken = [l \in Loops |-> IF l = 1 THEN 1 ELSE None]
    /\ lTimer = [l \in Loops |-> 0]
    /\ lExit = [l \in Loops |-> "none"]
    /\ pc = [c \in Callers |-> "idle"]
    /\ cThread = [c \in Callers |-> None]
    /\ cEvent = [c \in Callers |-> None]
    /\ joinLeft = [c \in Callers |-> 0]
    /\ ret = [c \in Callers |-> IF c = 1 THEN "True" ELSE "none"]
    /\ warned = [c \in Callers |-> FALSE]
    /\ nCalls = MaxCalls - 1

\* the state in which start_monitor(sid, app) has returned True in the
\* application, where create_app has injected the SocketIO instance
CaptureInit ==
    /\ MonitorStarted
    /\ SinkInit
    /\ RouteInit

CaptureNext ==
    \/ \E l \in Loops : CaptureStep(l)
    \/ AtExit /\ UNCHANGED <<sinkVars, routeVars>>
    \/ Tick /\ UNCHANGED <<sinkVars, routeVars>>

\* one capture loop from its start to its end or to the exit of the process
CaptureSpec == CaptureInit /\ [][CaptureNext]_vars

\* ------------------------------------------- the module before injection

\* set_socketio(sio): _socketio = sio
SetSocketio(sio) ==
    /\ socketio' = sio
    /\ UNCHANGED <<packet, hpc, nFrames, calls, tally, loopLog>>
    /\ UNCHANGED <<monVars, routeVars>>

\* the sink's state when packet_monitor has been imported and set_socketio
\* has not been called: _socketio = None
ModuleSinkInit ==
    /\ socketio = None
    /\ packet = [l \in Loops |-> NoPacket]
    /\ hpc = [l \in Loops |-> "idle"]
    /\ nFrames = [l \in Loops |-> 0]
    /\ calls = [l \in Loops |-> <<>>]
    /\ tally = [l \in Loops |-> ZeroTally]
    /\ loopLog = [l \in Loops |-> ZeroLoopLog]

\* start_monitor(sid, app) has returned True and nothing has injected a
\* SocketIO instance yet
UninjectedInit ==
    /\ MonitorStarted
    /\ ModuleSinkInit
    /\ RouteInit

\* the capture loop and the exit hook, and set_socketio called once, at any
\* moment, by the thread that builds the application
UninjectedNext ==
    \/ CaptureNext
    \/ socketio = None /\ SetSocketio(TheSocketIO)

UninjectedSpec == UninjectedInit /\ [][UninjectedNext]_vars

\* the steps of the main thread inside a "with _state_lock:" block
AtExitLocked == StopRead(MainThread) \/ StopClear(MainThread)

\* CaptureSpec with the scheduling the threads rely on: a runnable loop
\* thread runs, sniff returns at its timeout, log_packet and emit return or
\* raise, time.sleep returns, the state lock is released, a due join
\* returns, and time advances
FairCaptureSpec ==
    /\ CaptureSpec
    /\ \A l \in Loops :
          /\ WF_vars(LoopImport(l) /\ UNCHANGED <<sinkVars, routeVars>>)
          /\ WF_vars(LoopWhile(l) /\ UNCHANGED <<sinkVars, routeVars>>)
          /\ WF_vars(SniffTimeout(l) /\ UNCHANGED <<sinkVars, routeVars>>)
          /\ WF_vars(BackoffDone(l) /\ UNCHANGED <<sinkVars, routeVars>>)
          /\ WF_vars(HandleParse(l) /\ UNCHANGED routeVars)
          /\ WF_vars((\E ok \in BOOLEAN : HandlePersist(l, ok))
                    /\ UNCHANGED routeVars)
          /\ WF_vars((\E ok \in BOOLEAN : HandleEmit(l, ok))
                    /\ UNCHANGED routeVars)
          /\ WF_vars(HandleReturn(l) /\ UNCHANGED routeVars)
    /\ WF_vars(AtExitLocked /\ UNCHANGED <<sinkVars, routeVars>>)
    /\ WF_vars(StopJoin(MainThread) /\ UNCHANGED <<sinkVars, routeVars>>)
    /\ SF_vars(Tick /\ UNCHANGED <<sinkVars, routeVars>>)

\* ================================================================== claims

\* positions of a request thread inside stop_monitor
StopPcs == {"stop_locked", "stop_check", "stop_signal", "stop_join",
            "stop_joined", "stop_clearing"}

\* C1: in every reachable state at most one capture loop thread is alive,
\* under every interleaving of start_monitor and stop_monitor calls,
\* stop_monitor calls whose join times out included.
AtMostOneLoopAlive == Cardinality(AliveLoops) <= 1

\* C2: a start_monitor call made while a capture loop thread is alive
\* returns False, spawns no loop and leaves the stored thread handle, token,
\* session id and app unchanged.
StartRejectedWhileLoopAlive ==
    [][\A c \in Callers :
          (pc[c] = "start_locked" /\ pc'[c] = "idle" /\ AliveLoops # {})
          => /\ ret'[c] = "False"
             /\ nLoops' = nLoops
             /\ lpc' = lpc
             /\ UNCHANGED mgr]_vars

\* C3: no thread leaks: whenever a capture loop thread is alive and its
\* token is not set, the stored thread handle refers to that thread.
NoLeakedLoop ==
    \A l \in Loops : (IsAlive(l) /\ ~TokenSet(l)) => monitorThread = l

\* C4 as stated: the stored session (session id, token) is non-null if and
\* only if a capture loop is running.
ActiveSessionIffRunning ==
    (currentSessionId # None /\ stopEvent # None) <=> (AliveLoops # {})

\* C4 as amended: whenever a capture loop is running the stored session id
\* and token are non-null, and once stored they are never dropped, neither
\* by stop_monitor completing nor by the loop terminating.
SessionStoredWhileRunning ==
    /\ [](AliveLoops # {} => (currentSessionId # None /\ stopEvent # None))
    /\ [][/\ currentSessionId # None => currentSessionId' # None
          /\ stopEvent # None => stopEvent' # None]_vars

\* C4 witness: stop_monitor has completed, no loop runs, and the session id
\* and token of the stopped loop are still stored.
SessionKeptAfterStop ==
    /\ nLoops > 0
    /\ monitorThread = None
    /\ AliveLoops = {}
    /\ currentSessionId # None
    /\ stopEvent # None
    /\ eventSet[stopEvent]

\* C5: when start_monitor spawns a loop after the stop_monitor calls made so
\* far have returned, every loop those calls signalled has observed the
\* cancellation and ended, so the new loop is the only one of them running.
CleanRestart ==
    [][\A c \in Callers :
          (/\ pc[c] = "start_locked"
           /\ nLoops' = nLoops + 1
           /\ \A d \in Callers : pc[d] \notin StopPcs)
          => \A l \in 1..nLoops : TokenSet(l) => lpc'[l] = "dead"]_vars

\* C6: a stop_monitor call that finds no capture loop running returns at
\* once (no join), sets no token and leaves the monitor state unchanged.
StopIdleIsNoOp ==
    [][\A c \in Callers :
          (pc[c] \in {"stop_locked", "stop_check"} /\ pc'[c] # pc[c]
           /\ AliveLoops = {})
          => /\ eventSet' = eventSet
             /\ lpc' = lpc
             /\ UNCHANGED mgr
             /\ pc[c] = "stop_check"
                => (pc'[c] = "idle" /\ ret'[c] = "None" /\ ~warned'[c])]_vars

\* C6 witness: stop_monitor has returned after the only loop ended by
\* itself: the handle of the dead loop is still stored, its token not set.
StopReturnedOnDeadLoop ==
    \E c \in Callers :
       /\ pc[c] = "idle" /\ ret[c] = "None"
       /\ nLoops = 1
       /\ monitorThread = 1
       /\ lExit[1] = "permission"
       /\ ~eventSet[1]

\* C7: is_running() returns True exactly when the stored thread handle is
\* non-null and that thread is alive; it reads under the state lock and
\* changes nothing, and the lock it needs is never held by a thread that
\* waits in join for a running loop.
IsRunningExact ==
    /\ [][\A c \in Callers :
            (pc[c] = "running_locked" /\ pc'[c] = "idle")
            => /\ stateLock = c
               /\ ret'[c] \in {"True", "False"}
               /\ ret'[c] = "True"
                  <=> (monitorThread # None
                       /\ lpc[monitorThread] \notin {"none", "dead"})
               /\ eventSet' = eventSet /\ lpc' = lpc /\ UNCHANGED mgr]_vars
    /\ [](stateLock # None
          => pc[stateLock] \in {"start_locked", "stop_locked",
                                "stop_clearing", "running_locked"})

\* C7 witness: is_running() is about to return True while another request
\* thread waits in stop_monitor's join for the running loop.
IsRunningDuringJoin ==
    \E c, d \in Callers :
       /\ pc[c] = "running_locked"
       /\ pc[d] = "stop_join"
       /\ IsAlive(cThread[d])
       /\ monitorThread = cThread[d]

ShutdownLatencyAtMostPoll ==
    \A l \in Loops :
       (IsAlive(l) /\ TokenSet(l) /\ lpc[l] \in {"sniff", "backoff"})
       => lTimer[l] <= SNIFF_TIMEOUT

\* C10: once a loop's token is set the loop eventually reaches Stopped (a
\* token stays set and an ended thread stays ended, so from some point on
\* no loop whose token is set is alive), and the capture primitive is never
\* entered (started or resumed after a packet) in a step that finds the
\* token set.
CancelledLoopStops ==
    /\ <>[](\A l \in Loops : ~(IsAlive(l) /\ TokenSet(l)))
    /\ [][\A l \in Loops :
            (lpc[l] \in {"while", "handle"} /\ lpc'[l] = "sniff")
            => ~TokenSet(l)]_vars

\* C10 witness: a loop whose token was set has left _capture_loop on the
\* cancellation.
LoopStoppedOnCancel ==
    \E l \in Loops : lpc[l] = "dead" /\ lExit[l] = "cancel" /\ TokenSet(l)

\* ------------------------------------------------------- the sink's claims

\* the frame in the sink of loop l has passed the IP test without raising
Matched(l) == packet[l].ip /\ ~packet[l].bad

\* number of entries of kind op among the calls of the sink of loop l
CountOp(l, op) ==
    Cardinality({i \in 1..Len(calls[l]) : calls[l][i].op = op})

\* the sink of loop l has logged the error line 'what' for its frame
Logged(l, what) ==
    \E i \in 1..Len(calls[l]) :
        calls[l][i].op = "error" /\ calls[l][i].what = what

\* C11: the label the sink passes on for an IP frame is "TCP" when the frame
\* has a TCP layer (a UDP layer or not), else "UDP" when it has a UDP layer,
\* else "ICMP" when it has an ICMP layer, else the decimal string of the
\* frame's protocol number ("6" for 6, "47" for 47).
ClassifierOrder ==
    \A l \in Loops : \A i \in 1..Len(calls[l]) :
        calls[l][i].op \in {"log_packet", "emit"} =>
            LET f == packet[l]
                label == calls[l][i].protocol
            IN  /\ f.tcp => label = "TCP"
                /\ ~f.tcp /\ f.udp => label = "UDP"
                /\ ~f.tcp /\ ~f.udp /\ f.icmp => label = "ICMP"
                /\ ~f.tcp /\ ~f.udp /\ ~f.icmp /\ f.proto = 6 => label = "6"
                /\ ~f.tcp /\ ~f.udp /\ ~f.icmp /\ f.proto = 47
                      => label = "47"

\* C11 witness: a frame with a TCP and a UDP layer was recorded as TCP
ClassifiedTcpOverUdp ==
    \E l \in Loops :
        /\ packet[l].tcp /\ packet[l].udp
        /\ \E i \in 1..Len(calls[l]) :
              calls[l][i].op = "log_packet" /\ calls[l][i].protocol = "TCP"

\* C12: whatever log_packet does, and so when it raises on every call, the
\* sink publishes every matched frame exactly once (a SocketIO instance
\* being injected), the sink returns to sniff, which goes on sniffing or,
\* when the token is set, returns to the while test, the loop thread ends
\* for no other reason than the import, a permission error or the token,
\* and a loop thread whose token is set does end.
PersistFailureIsolated ==
    /\ [](\A l \in Loops :
            /\ (hpc[l] = "done" /\ Matched(l) /\ socketio # None)
                  => CountOp(l, "emit") = 1
            /\ (hpc[l] = "idle" /\ socketio # None)
                  => tally[l].publishes = tally[l].matched
            /\ Logged(l, "db") => lpc[l] = "handle"
            /\ lpc[l] = "dead" =>
                  /\ lExit[l] \in {"import", "permission", "break", "cancel"}
                  /\ lExit[l] \in {"break", "cancel"} => TokenSet(l))
    /\ [][\A l \in Loops :
            (Logged(l, "db") /\ hpc[l] = "done" /\ hpc'[l] = "idle")
            => lpc'[l] = (IF TokenSet(l) THEN "while" ELSE "sniff")]_vars
    /\ <>[](\A l \in Loops : ~(IsAlive(l) /\ TokenSet(l)))

\* C12 witness: log_packet has raised on each of two calls and both frames
\* were published
PublishedThoughPersistFails ==
    \E l \in Loops :
        /\ tally[l].records = 2 /\ ~tally[l].dbReturned
        /\ tally[l].publishes = 2
        /\ hpc[l] = "done" /\ Logged(l, "db") /\ CountOp(l, "emit") = 1

\* C13: whatever emit does, and so when it raises on every call, the sink
\* calls log_packet exactly once for every matched frame, the frames after
\* a failed emit included; the failure is logged by the emit's own handler,
\* the sink returns to sniff, which goes on sniffing or, when the token is
\* set, returns to the while test, and the loop thread does not stay in the
\* sink for ever.
EmitFailureIsolated ==
    /\ [](\A l \in Loops :
            /\ (hpc[l] \in {"emit", "done"} /\ Matched(l))
                  => CountOp(l, "log_packet") = 1
            /\ hpc[l] \in {"idle", "emit", "done"}
                  => tally[l].records = tally[l].matched
            /\ Logged(l, "emit") => lpc[l] = "handle"
            /\ Logged(l, "handle") => CountOp(l, "emit") = 0)
    /\ [][\A l \in Loops :
            (Logged(l, "emit") /\ hpc[l] = "done" /\ hpc'[l] = "idle")
            => lpc'[l] = (IF TokenSet(l) THEN "while" ELSE "sniff")]_vars
    /\ \A l \in Loops : []<>(hpc[l] = "idle")
    /\ \A l \in Loops : <>[](IsAlive(l) => ~TokenSet(l))

\* C13 witness: the emit for the first frame raised and log_packet was
\* called for the second frame
PersistedAfterFailedEmit ==
    \E l \in Loops :
        /\ tally[l].publishes = 1 /\ ~tally[l].emitReturned
        /\ tally[l].records = 2
        /\ hpc[l] = "emit" /\ CountOp(l, "log_packet") = 1

\* C14: a frame without IP layer makes the sink call neither log_packet
\* nor emit and log no error, and sniff goes on with the next frame (or
\* returns to the while test when the token is set).
NonIpFrameSkipped ==
    /\ [](\A l \in Loops :
            (hpc[l] = "done" /\ ~packet[l].ip /\ ~packet[l].bad)
            => calls[l] = <<>> /\ lpc[l] = "handle")
    /\ [][\A l \in Loops :
            (hpc[l] = "parse" /\ ~packet[l].ip /\ ~packet[l].bad)
            => hpc'[l] \in {"parse", "done"} /\ tally'[l] = tally[l]]_vars
    /\ [][\A l \in Loops :
            (hpc[l] = "done" /\ ~packet[l].ip /\ hpc'[l] = "idle")
            => lpc'[l] = (IF TokenSet(l) THEN "while" ELSE "sniff")]_vars

\* C14 witness: the sink is through with an ARP frame that came after a
\* matched frame
ArpFrameDone ==
    \E l \in Loops :
        /\ hpc[l] = "done" /\ packet[l] = ArpFrame
        /\ nFrames[l] = 2 /\ tally[l].matched = 1

\* --------------------------------------------------- the loop's own errors

\* C15: a permission error of sniff is logged once, ends the loop thread in
\* the same step, without retry line and without backoff, and an ended loop
\* thread never calls sniff again; after any other error with the token not
\* set the loop leaves the backoff only for the while test, the while test
\* calls sniff unless the token is set, and the loop stays neither in the
\* backoff nor at the while test for ever.
PermissionErrorIsFatal ==
    /\ [](\A l \in Loops :
            /\ loopLog[l].permission <= 1
            /\ loopLog[l].permission = 1 <=> lExit[l] = "permission"
            /\ lExit[l] = "permission" => lpc[l] = "dead")
    /\ [][\A l \in Loops :
            /\ lpc[l] = "dead" => lpc'[l] = "dead"
            /\ loopLog'[l].permission # loopLog[l].permission
                  => /\ lpc[l] = "sniff" /\ lpc'[l] = "dead"
                     /\ loopLog'[l].retry = loopLog[l].retry
            /\ lpc[l] = "backoff" => lpc'[l] \in {"backoff", "while"}
            /\ (lpc[l] = "while" /\ ~TokenSet(l))
                  => lpc'[l] \in {"while", "sniff"}]_vars
    /\ \A l \in Loops : []<>(lpc[l] \notin {"backoff", "while"})

\* C15 witness: a loop that had handled a frame ended on a permission error
PermissionErrorStopped ==
    \E l \in Loops :
        /\ lpc[l] = "dead" /\ lExit[l] = "permission"
        /\ loopLog[l].permission = 1 /\ nFrames[l] = 1

\* C16: a non-permission error of sniff with the token not set starts a
\* backoff of 2 time units with one retry line; the loop leaves the backoff
\* only when the 2 units have passed and then for the while test, which
\* calls sniff again; whatever the number of retries, the loop thread ends
\* only on the import, on a permission error or with its token set.
RetryBackoffUnbounded ==
    /\ [](\A l \in Loops :
            lpc[l] = "dead" =>
                lExit[l] \in {"import", "permission"} \/ TokenSet(l))
    /\ [][\A l \in Loops :
            /\ (lpc[l] # "backoff" /\ lpc'[l] = "backoff")
                  => /\ lpc[l] = "sniff" /\ ~TokenSet(l)
                     /\ lTimer'[l] = 2
                     /\ loopLog'[l].retry = loopLog[l].retry + 1
            /\ (lpc[l] = "backoff" /\ lpc'[l] = "backoff")
                  => lTimer'[l] \in {lTimer[l], lTimer[l] - 1}
            /\ (lpc[l] = "backoff" /\ lpc'[l] # "backoff")
                  => lTimer[l] = 0 /\ lpc'[l] = "while"
            /\ (lpc[l] = "while" /\ lpc'[l] = "dead") => TokenSet(l)]_vars
    /\ \A l \in Loops : []<>(lpc[l] # "backoff")

\* C16 witness: the loop is in sniff again after MaxRetries retries
RetriedToTheBound ==
    \E l \in Loops :
        loopLog[l].retry = MaxRetries /\ lpc[l] = "sniff" /\ ~TokenSet(l)

\* C17: the loop enters the backoff and logs a retry line only with its
\* token not set; a non-permission error of sniff with the token set ends
\* the loop thread in the same step and logs nothing.
ErrorWhileCancelledSkipsBackoff ==
    /\ [](\A l \in Loops :
            lExit[l] = "break" => lpc[l] = "dead" /\ TokenSet(l))
    /\ [][\A l \in Loops :
            /\ (lpc[l] # "backoff" /\ lpc'[l] = "backoff") => ~TokenSet(l)
            /\ loopLog'[l].retry # loopLog[l].retry => ~TokenSet(l)
            /\ (lExit[l] # "break" /\ lExit'[l] = "break")
                  => /\ lpc[l] = "sniff" /\ TokenSet(l)
                     /\ lpc'[l] = "dead"
                     /\ loopLog'[l] = loopLog[l]]_vars

\* C17 witness: sniff raised after a retry with the token set meanwhile,
\* and the loop ended at the break
BrokeOutOnCancel ==
    \E l \in Loops :
        lExit[l] = "break" /\ lpc[l] = "dead" /\ loopLog[l].retry = 1

\* ---------------------------------------------- containment, attribution

\* C18: a frame on which the accessors raise makes the sink log one error
\* line and call neither log_packet nor emit; the sink returns to sniff,
\* which goes on sniffing (or returns to the while test when the token is
\* set) without retry line or backoff; a loop thread that ended has left
\* _capture_loop by one of its return paths.
MalformedFrameContained ==
    /\ [](\A l \in Loops :
            /\ (hpc[l] = "done" /\ packet[l].bad)
                  => calls[l] = <<[op |-> "error", what |-> "handle"]>>
                     /\ lpc[l] = "handle"
            /\ lpc[l] = "dead"
                  => lExit[l] \in {"import", "permission", "break", "cancel"})
    /\ [][\A l \in Loops :
            /\ (hpc[l] = "parse" /\ packet[l].bad)
                  => /\ hpc'[l] \in {"parse", "done"}
                     /\ tally'[l] = tally[l]
                     /\ lpc'[l] = "handle"
            /\ (hpc[l] = "done" /\ packet[l].bad /\ hpc'[l] = "idle")
                  => /\ lpc'[l] = (IF TokenSet(l) THEN "while" ELSE "sniff")
                     /\ loopLog'[l] = loopLog[l]]_vars

\* C18 witness: the second frame was malformed and the sink is through
\* with it, the first one having been recorded
MalformedFrameLogged ==
    \E l \in Loops :
        /\ hpc[l] = "done" /\ packet[l] = MalformedFrame
        /\ nFrames[l] = 2 /\ tally[l].records = 1
        /\ Logged(l, "handle")

\* an entry of the sink's calls that is a call of a collaborator
IsCall(entry) == entry.op # "error"

\* C19: when the sink is through with a matched frame it has called
\* log_packet once and then emit once, log_packet with the session id the
\* loop was started with, the frame's label, source address, destination
\* address and length, emit with the event "packet_update" and the same five
\* values.
SinkCallsCarrySession ==
    \A l \in Loops :
        (hpc[l] = "done" /\ Matched(l)) =>
            LET made == SelectSeq(calls[l], IsCall)
            IN  /\ Len(made) = 2
                /\ made[1] =
                      [op |-> "log_packet", session_id |-> lSession[l],
                       protocol |-> made[1].protocol,
                       source_ip |-> packet[l].src,
                       dest_ip |-> packet[l].dst,
                       size_bytes |-> packet[l].size]
                /\ made[2] =
                      [op |-> "emit", event |-> "packet_update",
                       session_id |-> lSession[l],
                       protocol |-> made[1].protocol,
                       source_ip |-> packet[l].src,
                       dest_ip |-> packet[l].dst,
                       size_bytes |-> packet[l].size]
                /\ lSession[l] \in SessionIds

\* C19 witness: the scenario of the specification, session 7 and a TCP
\* frame of 512 bytes from 203.0.113.50 to 10.0.0.5
ScenarioFrameRecorded ==
    \E l \in Loops :
        /\ hpc[l] = "done"
        /\ calls[l] =
              <<[op |-> "log_packet", session_id |-> 7, protocol |-> "TCP",
                 source_ip |-> "203.0.113.50", dest_ip |-> "10.0.0.5",
                 size_bytes |-> 512],
                [op |-> "emit", event |-> "packet_update", session_id |-> 7,
                 protocol |-> "TCP", source_ip |-> "203.0.113.50",
                 dest_ip |-> "10.0.0.5", size_bytes |-> 512]>>

\* C20: sniff hands a frame to the sink only when the sink is idle and
\* log_packet and emit have been called for every matched frame handed over
\* before; while the sink is busy the loop thread is inside prn; frames are
\* numbered in the order they are handed over, one at a time.
FramesHandledInOrder ==
    /\ [](\A l \in Loops :
            /\ hpc[l] # "idle" => lpc[l] = "handle"
            /\ lpc[l] # "handle" =>
                  /\ hpc[l] = "idle"
                  /\ tally[l].records = tally[l].matched
                  /\ tally[l].publishes = tally[l].matched)
    /\ [][\A l \in Loops :
            nFrames'[l] # nFrames[l] =>
                /\ nFrames'[l] = nFrames[l] + 1
                /\ lpc[l] = "sniff" /\ hpc[l] = "idle"
                /\ lpc'[l] = "handle" /\ hpc'[l] = "parse"
                /\ tally[l].records = tally[l].matched
                /\ tally[l].publishes = tally[l].matched]_vars

\* C20 witness: the second frame is in the sink, before its log_packet
\* call, and the first frame was recorded and published
SecondFrameInSink ==
    \E l \in Loops :
        /\ nFrames[l] = 2 /\ hpc[l] = "db"
        /\ tally[l].records = 1 /\ tally[l].publishes = 1

\* ===================================================== restart behaviours

\* the frames of the restart behaviours: TCP segments between the peer and
\* the controller
ScenarioFrames == {f \in IPFrames : f.tcp /\ ~f.udp /\ ~f.icmp /\ f.proto = 6}

\* _capture_loop with its sink while the main thread stops and starts the
\* monitor around it: import, poll, frame, sink sub-steps, poll timeout
RestartLoopStep(l) ==
    \/ LoopImport(l) /\ UNCHANGED <<sinkVars, routeVars>>
    \/ LoopWhile(l) /\ UNCHANGED <<sinkVars, routeVars>>
    \/ \E f \in ScenarioFrames : DeliverPacket(l, f) /\ UNCHANGED routeVars
    \/ HandleParse(l) /\ UNCHANGED routeVars
    \/ \E ok \in BOOLEAN : HandlePersist(l, ok) /\ UNCHANGED routeVars
    \/ \E ok \in BOOLEAN : HandleEmit(l, ok) /\ UNCHANGED routeVars
    \/ HandleReturn(l) /\ UNCHANGED routeVars
    \/ SniffTimeout(l) /\ UNCHANGED <<sinkVars, routeVars>>

\* the main thread calls start_monitor, stop_monitor and is_running in any
\* order while the loops it spawned capture and handle frames
RestartNext ==
    \/ \E l \in Loops : RestartLoopStep(l)
    \/ CallerStep(MainThread) /\ UNCHANGED <<sinkVars, routeVars>>
    \/ Tick /\ UNCHANGED <<sinkVars, routeVars>>

RestartSpec == Init /\ [][RestartNext]_vars

\* C21: every log_packet call and every emit a loop makes carries the
\* session id passed to the start_monitor call that spawned the loop: the
\* loop gets that id when it is spawned, keeps it as long as it runs, and
\* uses it in each call, whatever start_monitor stored in
\* _current_session_id since.
LoopKeepsSpawnSession ==
    /\ [](\A l \in Loops : \A i \in 1..Len(calls[l]) :
            IsCall(calls[l][i]) => calls[l][i].session_id = lSession[l])
    /\ [][\A l \in Loops :
            /\ (lpc[l] = "none" /\ lpc'[l] # "none") =>
                  /\ pc[MainThread] = "start_locked"
                  /\ ret'[MainThread] = "True"
                  /\ lSession'[l] = currentSessionId'
                  /\ lSession'[l] \in SessionIds
            /\ (IsAlive(l) /\ lpc'[l] # "dead") =>
                  lSession'[l] = lSession[l]]_vars

\* C21 witness: a loop spawned for one session has recorded and published
\* its second frame while the manager stores the session of a later start
OldLoopRecordsUnderNewSession ==
    \E l \in Loops :
        /\ IsAlive(l)
        /\ currentSessionId # lSession[l]
        /\ monitorThread # l
        /\ nFrames[l] = 2
        /\ hpc[l] = "done"
        /\ Matched(l)
        /\ CountOp(l, "log_packet") = 1
        /\ CountOp(l, "emit") = 1

\* C22: every step that changes _monitor_thread, _stop_event,
\* _current_session_id or _app is taken by a thread that holds _state_lock,
\* inside the locked block of start_monitor or the second locked block of
\* stop_monitor.
WritesUnderLock ==
    [][mgr' # mgr =>
          \E c \in Callers :
              /\ stateLock = c
              /\ pc[c] \in {"start_locked", "stop_clearing"}
              /\ pc'[c] = "idle"]_vars

\* C22 witness: a stop_monitor call holds the lock and is about to clear the
\* handle while the other thread's stop_monitor waits for the lock to do the
\* same
TwoWritersSerialised ==
    \E c, d \in Callers :
        /\ pc[c] = "stop_clearing"
        /\ stateLock = c
        /\ pc[d] = "stop_joined"
        /\ monitorThread # None

\* the places of a call inside a "with _state_lock:" block
LockedPcs == {"start_locked", "stop_locked", "stop_clearing",
              "running_locked"}

\* C23: _state_lock is held only inside the locked blocks, so not while
\* stop_monitor tests, signals or joins; a step of a capture loop (sniff,
\* sink, sleep, exit) neither needs nor changes the lock, and the token is
\* signalled by a thread that does not hold it; and every call of
\* start_monitor, stop_monitor and is_running returns, whatever the loops
\* do: as the calls are finitely many, in the end no call is in progress
\* and the lock is free.
LockNotHeldAcrossBlocking ==
    /\ [](\A c \in Callers :
            /\ stateLock = c => pc[c] \in LockedPcs
            /\ pc[c] \in {"stop_check", "stop_signal", "stop_join",
                         "stop_joined"} => stateLock # c)
    /\ [][/\ loopVars' # loopVars /\ pc' = pc => stateLock' = stateLock
          /\ eventSet' # eventSet =>
                \E c \in Callers : pc[c] = "stop_signal" /\ stateLock # c]_vars
    /\ <>[](\A c \in Callers : pc[c] = "idle" /\ stateLock = None)

\* C23 witness: stop_monitor joins a loop that is still running while the
\* other thread is inside a locked block
LockTakenDuringJoin ==
    \E c, d \in Callers :
        /\ pc[c] = "stop_join"
        /\ IsAlive(cThread[c])
        /\ joinLeft[c] > 0
        /\ stateLock = d
        /\ pc[d] \in LockedPcs

\* C24: start_monitor returns True when the capture thread started, False
\* when a loop is already running or when Scapy cannot be imported; so no
\* thread spawned by a start_monitor call that returned True finds Scapy
\* missing.
StartFalseWithoutScapy ==
    \A l \in Loops : lExit[l] # "import"

\* C25: a loop that ended on the permission error stays ended and no loop
\* appears except by a start_monitor call; a start_monitor call that finds
\* the handle of such a loop still stored returns True, spawns exactly one
\* new loop and gives it a token that no earlier loop has and that is not
\* set.
RestartAfterPermissionError ==
    /\ [][\A l \in Loops : lpc[l] = "dead" => lpc'[l] = "dead"]_vars
    /\ [][nLoops' # nLoops =>
             \E c \in Callers : pc[c] = "start_locked" /\ ret'[c] = "True"]_vars
    /\ [][\A c \in Callers :
             (/\ pc[c] = "start_locked"
              /\ pc'[c] = "idle"
              /\ monitorThread # None
              /\ lExit[monitorThread] = "permission") =>
                 /\ ret'[c] = "True"
                 /\ nLoops' = nLoops + 1
                 /\ monitorThread' = nLoops'
                 /\ lpc'[monitorThread'] = "import"
                 /\ \A l \in Loops : l # monitorThread' => lpc'[l] = lpc[l]
                 /\ stopEvent' = lToken'[monitorThread']
                 /\ \A l \in 1..nLoops : lToken[l] # stopEvent'
                 /\ ~eventSet'[stopEvent']]_vars

\* C25 witness: the first loop ended on the permission error, nobody
\* called stop_monitor, and the loop of a later start_monitor runs
RestartedAfterPermissionError ==
    /\ lExit[1] = "permission"
    /\ lpc[1] = "dead"
    /\ monitorThread = 2
    /\ IsAlive(2)
    /\ lToken[2] # lToken[1]
    /\ \A c \in Callers : pc[c] \notin StopPcs /\ ret[c] # "None"

\* ========================================================= cast_routes.py

\* a request reaches a thread that handles none
Arrive(c, route) ==
    /\ rpc[c] = "idle"
    /\ pc[c] = "idle"
    /\ nRequests < MaxRequests
    /\ nRequests' = nRequests + 1
    /\ req' = [req EXCEPT ![c] = route]

\* the handler returns its response; the request is gone
Respond(c, code, mid, txt) ==
    /\ rpc' = [rpc EXCEPT ![c] = "idle"]
    /\ body' = [body EXCEPT ![c] = NoBody]
    /\ resp' = [resp EXCEPT ![c] =
                   [code |-> code, message_id |-> mid, text |-> txt]]

\* the handler goes on
Continue(c, where) ==
    /\ rpc' = [rpc EXCEPT ![c] = where]
    /\ resp' = [resp EXCEPT ![c] = NoResp]

\* connect_to_tv: init_chromecast(timeout=10), 503 when it failed, else
\* cast_display_page() and on to _get_or_create_session()
ConnectTv(c) ==
    /\ Arrive(c, "connect")
    /\ IF tvOn
       THEN /\ cast' = TheCast
            /\ castPageSent' = TRUE
            /\ tvCalls' = tvCalls + 2
            /\ Continue(c, "gs_check")
            /\ UNCHANGED body
       ELSE /\ tvCalls' = tvCalls + 1
            /\ Respond(c, 503, None, <<>>)
            /\ UNCHANGED <<cast, castPageSent>>
    /\ UNCHANGED <<currentText, activeSessionId, nSessions, nMessages,
                   envVars, sess, monVars, sinkVars>>

\* Finish that answers 500 when the message could not be logged
FinishNeedsMessage(c, sid) ==
    /\ IF req[c] = "send" /\ sid # None /\ dbUp
       THEN /\ nMessages' = nMessages + 1
            /\ Respond(c, 200, nMessages', <<>>)
       ELSE /\ UNCHANGED nMessages
            /\ Respond(c, IF req[c] = "send" THEN 500 ELSE 200, None, <<>>)
    /\ sess' = [sess EXCEPT ![c] = None]

\* what is left of connect_to_tv or send_text once _get_or_create_session
\* returned sid: connect answers 200; send calls log_message when sid is not
\* None and answers 200 with the id of the message row, or null
Finish(c, sid) ==
    /\ IF req[c] = "send" /\ sid # None /\ dbUp
       THEN /\ nMessages' = nMessages + 1
            /\ Respond(c, 200, nMessages', <<>>)
       ELSE /\ UNCHANGED nMessages
            /\ Respond(c, 200, None, <<>>)
    /\ sess' = [sess EXCEPT ![c] = None]

\* _get_or_create_session: "if _active_session_id is not None: return"
GsCheck(c) ==
    /\ rpc[c] = "gs_check"
    /\ IF activeSessionId # None
       THEN Finish(c, activeSessionId)
       ELSE /\ rpc' = [rpc EXCEPT ![c] = "gs_create"]
            /\ UNCHANGED <<nMessages, body, sess, resp>>
    /\ UNCHANGED <<cast, castPageSent, currentText, activeSessionId,
                   nSessions, tvCalls, envVars, req, nRequests, monVars,
                   sinkVars>>

\* get_or_create_device and create_session: a new row, or None when the
\* database is down
GsCreate(c) ==
    /\ rpc[c] = "gs_create"
    /\ IF dbUp
       THEN /\ nSessions' = nSessions + 1
            /\ sess' = [sess EXCEPT ![c] = SessionId(nSessions')]
            /\ rpc' = [rpc EXCEPT ![c] = "gs_write"]
            /\ UNCHANGED <<nMessages, body, resp>>
       ELSE /\ Finish(c, None)
            /\ UNCHANGED nSessions
    /\ UNCHANGED <<cast, castPageSent, currentText, activeSessionId,
                   tvCalls, envVars, req, nRequests, monVars, sinkVars>>

\* _active_session_id = session.id
GsWrite(c) ==
    /\ rpc[c] = "gs_write"
    /\ activeSessionId' = sess[c]
    /\ sess' = [sess EXCEPT ![c] = None]
    /\ rpc' = [rpc EXCEPT ![c] = "gs_running"]
    /\ UNCHANGED <<cast, castPageSent, currentText, nSessions, nMessages,
                   tvCalls, envVars, req, body, resp, nRequests, monVars,
                   sinkVars>>

\* "if not packet_monitor.is_running():", the call
GsIsRunningCall(c) ==
    /\ rpc[c] = "gs_running"
    /\ IsRunningAcquire(c)
    /\ rpc' = [rpc EXCEPT ![c] = "gs_running_locked"]
    /\ UNCHANGED <<castVars, envVars, req, body, sess, resp, nRequests,
                   sinkVars>>

\* is_running() returns
GsIsRunningReturn(c) ==
    /\ rpc[c] = "gs_running_locked"
    /\ IsRunningBody(c)
    /\ rpc' = [rpc EXCEPT ![c] =
                  IF IsRunningValue THEN "gs_return" ELSE "gs_args"]
    /\ UNCHANGED <<castVars, envVars, req, body, sess, resp, nRequests,
                   sinkVars>>

\* the arguments of start_monitor(_active_session_id, app) are evaluated
GsArgs(c) ==
    /\ rpc[c] = "gs_args"
    /\ sess' = [sess EXCEPT ![c] = activeSessionId]
    /\ rpc' = [rpc EXCEPT ![c] = "gs_start"]
    /\ UNCHANGED <<castVars, envVars, req, body, resp, nRequests, monVars,
                   sinkVars>>

\* start_monitor is called
GsStartCall(c) ==
    /\ rpc[c] = "gs_start"
    /\ StartAcquire(c)
    /\ rpc' = [rpc EXCEPT ![c] = "gs_start_locked"]
    /\ UNCHANGED <<castVars, envVars, req, body, sess, resp, nRequests,
                   sinkVars>>

\* start_monitor returns
GsStartReturn(c) ==
    /\ rpc[c] = "gs_start_locked"
    /\ StartBody(c, sess[c])
    /\ sess' = [sess EXCEPT ![c] = None]
    /\ rpc' = [rpc EXCEPT ![c] = "gs_return"]
    /\ UNCHANGED <<castVars, envVars, req, body, resp, nRequests, sinkVars>>

\* "return _active_session_id" and the rest of the handler
GsReturn(c) ==
    /\ rpc[c] = "gs_return"
    /\ Finish(c, activeSessionId)
    /\ UNCHANGED <<cast, castPageSent, currentText, activeSessionId,
                   nSessions, tvCalls, envVars, req, nRequests, monVars,
                   sinkVars>>

GetOrCreateSession(c) ==
    \/ GsCheck(c)
    \/ GsCreate(c)
    \/ GsWrite(c)
    \/ GsIsRunningCall(c)
    \/ GsIsRunningReturn(c)
    \/ GsArgs(c)
    \/ GsStartCall(c)
    \/ GsStartReturn(c)
    \/ GsReturn(c)

\* a POST /api/cast/disconnect reaches disconnect_from_tv, which calls
\* cast_service.disconnect()
DisconnectArrive(c) ==
    /\ Arrive(c, "disconnect")
    /\ Continue(c, "disc_swap")
    /\ UNCHANGED <<castVars, envVars, body, sess, monVars, sinkVars>>

\* DisconnectSwap that reads _cast and leaves the stored object in place
DisconnectSwapKeepsObject(c) ==
    /\ rpc[c] = "disc_swap"
    /\ IF cast = None
       THEN Respond(c, 200, None, <<>>)
       ELSE Continue(c, "disc_stop") /\ UNCHANGED body
    /\ UNCHANGED <<castVars, envVars, req, sess, nRequests, monVars,
                   sinkVars>>

\* cast_service.disconnect(): "cast = _cast; _cast = None" under
\* _cast_lock; with no object stored nothing else is done
DisconnectSwap(c) ==
    /\ rpc[c] = "disc_swap"
    /\ cast' = None
    /\ IF cast = None
       THEN Respond(c, 200, None, <<>>)
       ELSE Continue(c, "disc_stop") /\ UNCHANGED body
    /\ UNCHANGED <<castPageSent, currentText, activeSessionId, nSessions,
                   nMessages, tvCalls, envVars, req, sess, nRequests,
                   monVars, sinkVars>>

\* packet_monitor.stop_monitor() is called
DisconnectStopCall(c) ==
    /\ rpc[c] = "disc_stop"
    /\ StopAcquire(c)
    /\ rpc' = [rpc EXCEPT ![c] = "disc_stopping"]
    /\ UNCHANGED <<castVars, envVars, req, body, sess, resp, nRequests,
                   sinkVars>>

\* stop_monitor() with its default timeout runs
DisconnectStopStep(c) ==
    /\ rpc[c] = "disc_stopping"
    /\ \/ StopRead(c)
       \/ StopCheck(c)
       \/ StopSignal(c, DefaultStopTimeout)
       \/ StopJoin(c)
       \/ StopReacquire(c)
       \/ StopClear(c)
    /\ UNCHANGED <<routeVars, sinkVars>>

\* stop_monitor returned: quit_app, cast.disconnect(timeout=5), errors
\* swallowed; the route answers 200
DisconnectDone(c) ==
    /\ rpc[c] = "disc_stopping"
    /\ pc[c] = "idle"
    /\ Respond(c, 200, None, <<>>)
    /\ UNCHANGED <<castVars, envVars, req, sess, nRequests, monVars,
                   sinkVars>>

\* the status send_text answers before it does anything else, 0 when it
\* goes on: 400 for no body, a falsy body, a body without "text" or a text
\* that strips to nothing; '"text" not in data' and data["text"] raise
\* TypeError for a body that is a number or a list, which makes a 500
SendOutcome(b) ==
    IF ~b.truthy THEN 400
    ELSE IF b.kind \notin {"object", "array"} THEN 500
    ELSE IF ~b.contains THEN 400
    ELSE IF b.kind # "object" THEN 500
    ELSE IF Strip(TextOf(b.value)) = <<>> THEN 400
    ELSE 0

\* a POST /api/cast/send with body b reaches send_text
SendArrive(c, b) ==
    /\ Arrive(c, "send")
    /\ body' = [body EXCEPT ![c] = b]
    /\ Continue(c, "send_validate")
    /\ UNCHANGED <<castVars, envVars, sess, monVars, sinkVars>>

\* send_text up to "text = str(data["text"]).strip()" and its test
SendValidate(c) ==
    /\ rpc[c] = "send_validate"
    /\ IF SendOutcome(Json(body[c])) # 0
       THEN Respond(c, SendOutcome(Json(body[c])), None, <<>>)
       ELSE /\ rpc' = [rpc EXCEPT ![c] = "send_cast"]
            /\ UNCHANGED <<body, resp>>
    /\ UNCHANGED <<castVars, envVars, req, sess, nRequests, monVars,
                   sinkVars>>

\* text = str(data["text"]).strip()
SendText(c) == Strip(TextOf(Json(body[c]).value))

\* send_text: init_chromecast when no Chromecast object is stored,
\* cast_display_page when _cast_page_sent is false, update_display_text;
\* from here on the handler needs the request only for the message row
SendCast(c) ==
    /\ rpc[c] = "send_cast"
    /\ LET connect == cast = None
           cast1 == IF connect /\ tvOn THEN TheCast ELSE cast
           page == ~castPageSent
       IN  /\ cast' = cast1
           /\ castPageSent' = IF page THEN cast1 # None /\ tvOn
                              ELSE castPageSent
           /\ tvCalls' = tvCalls + (IF connect THEN 1 ELSE 0)
                                 + (IF page /\ cast1 # None THEN 1 ELSE 0)
    /\ currentText' = SendText(c)
    /\ body' = [body EXCEPT ![c] = NoBody]
    /\ rpc' = [rpc EXCEPT ![c] = "gs_check"]
    /\ UNCHANGED <<activeSessionId, nSessions, nMessages, envVars, req,
                   sess, resp, nRequests, monVars, sinkVars>>

\* a GET /api/cast/current-text reaches get_current_text
TextArrive(c) ==
    /\ Arrive(c, "text")
    /\ Continue(c, "text_read")
    /\ UNCHANGED <<castVars, envVars, body, sess, monVars, sinkVars>>

\* get_current_text: 200 with cast_service.get_current_text()
CurrentText(c) ==
    /\ rpc[c] = "text_read"
    /\ Respond(c, 200, None, currentText)
    /\ UNCHANGED <<castVars, envVars, req, sess, nRequests, monVars,
                   sinkVars>>

RouteStep(c) ==
    \/ ConnectTv(c)
    \/ DisconnectArrive(c)
    \/ DisconnectSwap(c)
    \/ DisconnectStopCall(c)
    \/ DisconnectStopStep(c)
    \/ DisconnectDone(c)
    \/ \E b \in Bodies : SendArrive(c, b)
    \/ SendValidate(c)
    \/ SendCast(c)
    \/ GetOrCreateSession(c)
    \/ TextArrive(c)
    \/ CurrentText(c)

\* the capture loop behind the routes: import, poll, poll timeout,
\* permission error
RouteLoopStep(l) ==
    /\ \/ LoopImport(l)
       \/ LoopWhile(l)
       \/ SniffTimeout(l)
       \/ SniffPermissionError(l)
    /\ UNCHANGED <<sinkVars, routeVars>>

\* the TV stops answering
TvGoesOff ==
    /\ tvOn
    /\ tvOn' = FALSE
    /\ UNCHANGED <<dbUp, castVars, reqVars, monVars, sinkVars>>

\* the database stops accepting commits
DbFails ==
    /\ dbUp
    /\ dbUp' = FALSE
    /\ UNCHANGED <<tvOn, castVars, reqVars, monVars, sinkVars>>

RouteNext ==
    \/ \E c \in Callers : RouteStep(c) /\ UNCHANGED dbVars
    \/ \E l \in Loops : RouteLoopStep(l)
    \/ Tick /\ UNCHANGED <<sinkVars, routeVars>>
    \/ TvGoesOff /\ UNCHANGED dbVars
    \/ DbFails /\ UNCHANGED dbVars

RouteSpec == Init /\ [][RouteNext]_vars

\* clients that connect and disconnect at the same time, and send nothing
ConnectionNext ==
    \/ \E c \in Callers :
          /\ \/ ConnectTv(c)
             \/ GetOrCreateSession(c)
             \/ DisconnectArrive(c)
             \/ DisconnectSwap(c)
             \/ DisconnectStopCall(c)
             \/ DisconnectStopStep(c)
             \/ DisconnectDone(c)
          /\ UNCHANGED dbVars
    \/ \E l \in Loops : RouteLoopStep(l)
    \/ Tick /\ UNCHANGED <<sinkVars, routeVars>>
    \/ TvGoesOff /\ UNCHANGED dbVars

ConnectionSpec == Init /\ [][ConnectionNext]_vars


\* no capture loop has ended on the import or on the permission error
CapturePermitted == \A l \in Loops : lExit[l] \notin {"import", "permission"}

\* C26: when POST /api/cast/connect answers success while the database is
\* available, capture is permitted and the requests so far came one after
\* the other, a DB session exists and the packet monitor is running,
\* whatever those requests were.
ConnectLeavesMonitorRunning ==
    [][\A c \in Callers :
          (/\ req[c] = "connect"
           /\ rpc[c] # "idle"
           /\ rpc'[c] = "idle"
           /\ resp'[c].code = 200
           /\ dbUp
           /\ CapturePermitted'
           /\ \A d \in Callers \ {c} : req[d] = "none") =>
              /\ activeSessionId' # None
              /\ IsRunningValue']_vars

\* C27: when POST /api/cast/disconnect answers success, the requests so far
\* having come one after the other, is_running() is false and every capture
\* loop still alive has its token set, whatever the state was before the
\* request.
DisconnectStopsMonitor ==
    [][\A c \in Callers :
          (/\ req'[c] = "disconnect"
           /\ rpc[c] # "idle" \/ nRequests' # nRequests
           /\ rpc'[c] = "idle"
           /\ resp'[c].code = 200
           /\ \A d \in Callers \ {c} : req[d] = "none") =>
              /\ ~IsRunningValue'
              /\ \A l \in Loops : IsAlive(l)' => eventSet'[lToken'[l]]]_vars

\* C28: under any interleaving of connect and send requests at most one
\* session row is created, and the session id a running capture loop
\* attributes its packets to is _active_session_id.
OneActiveSession ==
    /\ nSessions <= 1
    /\ \A l \in Loops : IsAlive(l) => lSession[l] = activeSessionId

\* C29: send_text with a text that is not empty after strip() stores that
\* text as the current display text; once the text is stored the request
\* is answered with success, with a null message_id whenever no message row
\* was written, as when the database is down; only send_text changes the
\* current display text, and GET /api/cast/current-text answers with it.
DbFailureNeverFailsCast ==
    [][\A c \in Callers :
          /\ rpc[c] = "send_cast" /\ rpc'[c] # "send_cast" =>
                /\ currentText' = Strip(TextOf(Json(body[c]).value))
                /\ currentText' # <<>>
          /\ (/\ req[c] = "send"
              /\ rpc[c] \notin {"idle", "send_validate"}
              /\ rpc'[c] = "idle") =>
                /\ resp'[c].code = 200
                /\ nMessages' = nMessages => resp'[c].message_id = None
                /\ ~dbUp => nMessages' = nMessages
          /\ rpc[c] = "text_read" /\ rpc'[c] # "text_read" =>
                /\ resp'[c].code = 200
                /\ resp'[c].text = currentText
                /\ currentText' = currentText
          /\ currentText' # currentText =>
                \E d \in Callers : rpc[d] = "send_cast"]_vars

\* C29 witness: the database failed after the session was created; the
\* send of " hi " that followed was answered with success and no message
\* id, and the current-text request after it with "hi"
CastSurvivedDbFailure ==
    \E c, d \in Callers :
        /\ ~dbUp
        /\ activeSessionId # None
        /\ nMessages = 1
        /\ req[c] = "send"
        /\ rpc[c] = "idle"
        /\ resp[c] = [code |-> 200, message_id |-> None, text |-> <<>>]
        /\ req[d] = "text"
        /\ rpc[d] = "idle"
        /\ resp[d] = [code |-> 200, message_id |-> None,
                      text |-> <<"h", "i">>]
        /\ currentText = <<"h", "i">>

\* a body without a "text" member of its own, or whose text is empty once
\* stripped
MissingOrEmptyText(b) ==
    \/ ~(b.kind = "object" /\ b.contains)
    \/ Strip(TextOf(b.value)) = <<>>

\* C30: send_text answers a request whose body has no "text" member, or a
\* text that is empty after strip(), with 400 and changes nothing: not the
\* current display text, the Chromecast object, the page flag, the calls
\* made to the TV, the sessions, the messages or the packet monitor.
BadSendRejected ==
    [][\A c \in Callers :
          (/\ rpc[c] = "send_validate"
           /\ rpc'[c] # "send_validate"
           /\ MissingOrEmptyText(Json(body[c]))) =>
              /\ rpc'[c] = "idle"
              /\ resp'[c].code = 400
              /\ castVars' = castVars
              /\ monVars' = monVars]_vars

\* ========================================================== db_service.py

\* message = Message(...); db.session.add(message): the row is pending in
\* the thread's own ORM session
LogMessageAdd(c) ==
    /\ lmpc[c] = "idle"
    /\ messageRows < MaxMessages
    /\ lmpc' = [lmpc EXCEPT ![c] = "added"]
    /\ UNCHANGED <<totalMessages, messageRows, lmSeen>>

\* session = Session.query.get(session_id): the thread's ORM session loads
\* the row with the total_messages committed at that moment
LogMessageGet(c) ==
    /\ lmpc[c] = "added"
    /\ lmSeen' = [lmSeen EXCEPT ![c] = totalMessages]
    /\ lmpc' = [lmpc EXCEPT ![c] = "loaded"]
    /\ UNCHANGED <<totalMessages, messageRows>>

\* "session.total_messages += 1" on the loaded object and
\* db.session.commit(): the message row and the new total are written in
\* one transaction, and log_message returns the message
LogMessageCommit(c) ==
    /\ lmpc[c] = "loaded"
    /\ totalMessages' = lmSeen[c] + 1
    /\ messageRows' = messageRows + 1
    /\ lmpc' = [lmpc EXCEPT ![c] = "idle"]
    /\ UNCHANGED lmSeen

\* "except SQLAlchemyError:": the database refused the query or the commit;
\* db.session.rollback(), nothing is written and log_message returns None
LogMessageFails(c) ==
    /\ lmpc[c] \in {"added", "loaded"}
    /\ lmpc' = [lmpc EXCEPT ![c] = "idle"]
    /\ UNCHANGED <<totalMessages, messageRows, lmSeen>>

\* one step of log_message(session_id, text, delivered, latency_ms) on
\* request thread c
LogMessageStep(c) ==
    \/ LogMessageAdd(c)
    \/ LogMessageGet(c)
    \/ LogMessageCommit(c)
    \/ LogMessageFails(c)

\* request threads inside log_message for one session, at the same time
LogNext ==
    \E c \in Callers :
        /\ LogMessageStep(c)
        /\ UNCHANGED <<monVars, sinkVars, castVars, envVars, reqVars,
                       statVars>>

LogSpec == Init /\ [][LogNext]_vars

\* C31: whatever the interleaving of the log_message calls for one session,
\* the session's total_messages is the number of message rows committed for
\* it.
TotalMessagesCountsRows == totalMessages = messageRows


\* ----------------------------------------- log_packet and get_packet_stats

\* the packets the capture loops store: a TCP segment and a UDP datagram of
\* session 7, a TCP segment of session 8
StoredPackets ==
    {[session_id |-> 7, protocol |-> "TCP", size_bytes |-> 512],
     [session_id |-> 7, protocol |-> "UDP", size_bytes |-> 60],
     [session_id |-> 8, protocol |-> "TCP", size_bytes |-> 60]}

\* db_service.log_packet(session_id, protocol, source_ip, dest_ip,
\* size_bytes) commits one row of packet_logs, with timestamp=_utcnow()
LogPacket(sid, protocol, size) ==
    /\ Len(packetLogs) < MaxPackets
    /\ packetLogs' = Append(packetLogs,
          [id |-> Len(packetLogs) + 1, session_id |-> sid,
           protocol |-> protocol, source_ip |-> PeerAddr,
           dest_ip |-> ControllerAddr, size_bytes |-> size,
           timestamp |-> dbClock])
    /\ UNCHANGED <<dbClock, spc, stats>>

\* the stored value of _utcnow() moves on
ClockTick ==
    /\ dbClock < MaxClock
    /\ dbClock' = dbClock + 1
    /\ UNCHANGED <<packetLogs, spc, stats>>

\* a query parameter as request.args gives it: absent, a text that int()
\* refuses, or the text of an integer
ArgAbsent == [kind |-> "absent", value |-> 0]
ArgText == [kind |-> "text", value |-> 0]
ArgInt(n) == [kind |-> "int", value |-> n]
SessionArgs == {ArgAbsent, ArgText} \cup {ArgInt(sid) : sid \in SessionIds}
LimitArgs == {ArgAbsent, ArgText, ArgInt(0), ArgInt(2), ArgInt(200)}

\* limit = max(1, min(limit, 100))
ClampLimit(limit) ==
    LET capped == IF limit < MAX_LIMIT THEN limit ELSE MAX_LIMIT
    IN  IF capped > MIN_LIMIT THEN capped ELSE MIN_LIMIT

\* packet_stats parses its query parameters: 400 for a session_id or a limit
\* that is not an integer, else get_packet_stats(session_id, limit) is
\* called with the limit clamped to 1..100 (20 when absent)
PacketStatsArrive(rawSession, rawLimit) ==
    /\ spc = "idle"
    /\ IF rawSession.kind = "text" \/ rawLimit.kind = "text"
       THEN /\ stats' = [NoStats EXCEPT !.code = 400]
            /\ spc' = "idle"
       ELSE /\ stats' = [NoStats EXCEPT
                  !.session_id = IF rawSession.kind = "absent" THEN None
                                 ELSE rawSession.value,
                  !.limit = ClampLimit(IF rawLimit.kind = "absent"
                                       THEN DEFAULT_LIMIT
                                       ELSE rawLimit.value)]
            /\ spc' = "query"
    /\ UNCHANGED <<packetLogs, dbClock>>

\* query = PacketLog.query, with filter_by(session_id=session_id) when a
\* session id is given
FilterBy(rows, sid) ==
    LET Keep(p) == sid = None \/ p.session_id = sid
    IN  SelectSeq(rows, Keep)

\* sum(p.size_bytes for p in all_packets)
RECURSIVE SumBytes(_)
SumBytes(rows) ==
    IF rows = <<>> THEN 0
    ELSE rows[1].size_bytes + SumBytes(Tail(rows))

\* breakdown: dict = {}
EmptyDict == [k \in {} |-> 0]

\* Breakdown with "breakdown[p.protocol] = 1" for the loop body
RECURSIVE BreakdownOverwrites(_)
BreakdownOverwrites(rows) ==
    IF rows = <<>> THEN EmptyDict
    ELSE LET before == BreakdownOverwrites(SubSeq(rows, 1, Len(rows) - 1))
             p == rows[Len(rows)].protocol
         IN  [k \in DOMAIN before \cup {p} |->
                  IF k = p THEN 1 ELSE before[k]]

\* for p in all_packets:
\*     breakdown[p.protocol] = breakdown.get(p.protocol, 0) + 1
RECURSIVE Breakdown(_)
Breakdown(rows) ==
    IF rows = <<>> THEN EmptyDict
    ELSE LET before == Breakdown(SubSeq(rows, 1, Len(rows) - 1))
             p == rows[Len(rows)].protocol
         IN  [k \in DOMAIN before \cup {p} |->
                  IF k = p
                  THEN (IF p \in DOMAIN before THEN before[p] ELSE 0) + 1
                  ELSE before[k]]

\* query.order_by(PacketLog.timestamp.desc()): the rows in an order in which
\* no row comes before a newer one; rows of equal timestamp come in any
\* order
OrderByTimestampDesc(rows) ==
    {s \in {[i \in 1..Len(rows) |-> rows[p[i]]] :
                p \in Permutations(1..Len(rows))} :
        \A i \in 1..(Len(s) - 1) : s[i].timestamp >= s[i + 1].timestamp}

\* .limit(limit).all()
Limit(rows, limit) ==
    SubSeq(rows, 1, IF limit < Len(rows) THEN limit ELSE Len(rows))

\* get_packet_stats(session_id, limit): both queries inside the call's
\* transaction, the answer built from them; on SQLAlchemyError the answer
\* with zero totals and no packets. packet_stats returns it as JSON
GetPacketStats ==
    /\ spc = "query"
    /\ IF dbUp
       THEN LET all_packets == FilterBy(packetLogs, stats.session_id)
            IN  \E recent \in OrderByTimestampDesc(all_packets) :
                    stats' = [stats EXCEPT
                        !.code = 200,
                        !.total_packets = Len(all_packets),
                        !.total_bytes = SumBytes(all_packets),
                        !.protocol_breakdown = Breakdown(all_packets),
                        !.recent_packets = Limit(recent, stats.limit)]
       ELSE stats' = [stats EXCEPT !.code = 200]
    /\ spc' = "idle"
    /\ UNCHANGED <<packetLogs, dbClock>>

\* the capture loops store packets while a client asks for the statistics
StatsNext ==
    \/ /\ \E p \in StoredPackets :
             LogPacket(p.session_id, p.protocol, p.size_bytes)
       /\ UNCHANGED <<monVars, sinkVars, castVars, envVars, reqVars, logVars>>
    \/ /\ ClockTick
       /\ UNCHANGED <<monVars, sinkVars, castVars, envVars, reqVars, logVars>>
    \/ /\ \E rawSession \in SessionArgs : \E rawLimit \in LimitArgs :
             PacketStatsArrive(rawSession, rawLimit)
       /\ UNCHANGED <<monVars, sinkVars, castVars, envVars, reqVars, logVars>>
    \/ /\ GetPacketStats
       /\ UNCHANGED <<monVars, sinkVars, castVars, envVars, reqVars, logVars>>
    \/ DbFails /\ UNCHANGED dbVars

StatsSpec == Init /\ [][StatsNext]_vars


\* the rows of packet_logs a statistics request for session sid is about:
\* those of the session, all rows when sid is absent
RowsOf(sid) ==
    {i \in 1..Len(packetLogs) :
        sid = None \/ packetLogs[i].session_id = sid}

\* the sizes of the rows in the set, added up
RECURSIVE BytesOf(_)
BytesOf(rows) ==
    IF rows = {} THEN 0
    ELSE LET i == CHOOSE i \in rows : TRUE
         IN  packetLogs[i].size_bytes + BytesOf(rows \ {i})

\* the counts of a breakdown, added up
RECURSIVE SumCounts(_)
SumCounts(breakdown) ==
    IF DOMAIN breakdown = {} THEN 0
    ELSE LET k == CHOOSE k \in DOMAIN breakdown : TRUE
         IN  breakdown[k] +
             SumCounts([j \in DOMAIN breakdown \ {k} |-> breakdown[j]])

StoppedLoopIsSilent ==
    /\ [][\A c \in Callers :
            (pc[c] = "stop_join" /\ pc'[c] = "stop_joined" /\ ~warned'[c])
            => /\ lpc[cThread[c]] = "dead"
               /\ lpc'[cThread[c]] = "dead"]_vars
    /\ [][\A l \in Loops :
            lpc[l] = "dead" =>
                /\ lpc'[l] = "dead"
                /\ nFrames'[l] = nFrames[l]
                /\ tally'[l] = tally[l]
                /\ calls'[l] = calls[l]
                /\ hpc'[l] = "idle"]_vars
    /\ [][\A l \in Loops :
            /\ nFrames'[l] # nFrames[l] => lpc[l] = "sniff"
            /\ (IsAlive(l) /\ TokenSet(l) /\ lpc[l] # "sniff")
                  => lpc'[l] # "sniff"]_vars

\* C33 witness: the join of the main thread's stop_monitor has returned
\* without warning for a loop that recorded and published a frame and then
\* ended on its token
QuietAfterCleanStop ==
    \E l \in Loops :
        /\ pc[MainThread] = "stop_joined"
        /\ ~warned[MainThread]
        /\ monitorThread = l
        /\ lpc[l] = "dead" /\ lExit[l] = "cancel"
        /\ tally[l].records = 1 /\ tally[l].publishes = 1


\* C34: the thread handle and the token stop_monitor holds after its locked
\* read are the pair one start_monitor call stored together: the token is
\* the token of the thread it goes on to join, and event.set() sets that
\* token and no other, whatever a concurrent start_monitor has stored since
\* the read.
StopSignalsOwnToken ==
    /\ [](\A c \in Callers :
            (pc[c] \in {"stop_check", "stop_signal"} /\ cThread[c] # None)
            => cEvent[c] = lToken[cThread[c]])
    /\ [][\A c \in Callers :
            (pc[c] = "stop_signal" /\ pc'[c] = "stop_join") =>
                /\ cThread'[c] = cThread[c]
                /\ eventSet'[lToken[cThread[c]]]
                /\ \A e \in Loops :
                      eventSet'[e] # eventSet[e]
                         => e = lToken[cThread[c]]]_vars

\* C34 witness: a stop_monitor is joining the thread whose token it set
\* while a start_monitor that ran after its read has stored another thread
\* and another token, which is not set
StopJoinsOldPairAfterStart ==
    \E c \in Callers :
        /\ pc[c] = "stop_join"
        /\ monitorThread \notin {None, cThread[c]}
        /\ stopEvent = lToken[monitorThread]
        /\ eventSet[lToken[cThread[c]]]
        /\ ~eventSet[stopEvent]


\* C35: for every matched frame the sink calls log_packet, and log_packet
\* has returned or its failure has been logged, before the sink calls emit
\* for that frame: an emit is the second call of the sink for its frame,
\* after the log_packet call and after the error line of a failed
\* log_packet, and the sink reaches the emit only from the DB write.
PersistBeforePublish ==
    /\ [](\A l \in Loops : \A i \in 1..Len(calls[l]) :
            calls[l][i].op = "emit" =>
                /\ Matched(l)
                /\ calls[l][1] = LogPacketCall(l)
                /\ i = 2 \/ (i = 3 /\ calls[l][2] = ErrorLine("db"))
                /\ tally[l].records = tally[l].matched)
    /\ [][\A l \in Loops :
            /\ tally'[l].publishes # tally[l].publishes =>
                  /\ hpc[l] = "emit"
                  /\ CountOp(l, "log_packet") = 1
                  /\ tally[l].records = tally[l].matched
            /\ (hpc[l] # "emit" /\ hpc'[l] = "emit") =>
                  /\ hpc[l] = "db"
                  /\ tally'[l].records = tally[l].records + 1
                  /\ calls'[l][1] = LogPacketCall(l)]_vars

\* C35 witness: log_packet was called and raised, its failure was logged,
\* and only then was the frame published
PublishedAfterFailedPersist ==
    \E l \in Loops :
        /\ Len(calls[l]) = 3
        /\ calls[l][1].op = "log_packet"
        /\ calls[l][2] = ErrorLine("db")
        /\ calls[l][3].op = "emit"


\* C36: as long as set_socketio has not been called the sink calls
\* log_packet once for every matched frame, calls emit for none, logs no
\* error of its own making (an emit error never, a parse error only for a
\* frame whose accessors raise), leaves the emit step without a call, and
\* returns to sniff.
UninjectedSinkPersistsOnly ==
    /\ [](socketio = None => \A l \in Loops :
            /\ tally[l].publishes = 0
            /\ CountOp(l, "emit") = 0
            /\ ~Logged(l, "emit")
            /\ Logged(l, "handle") => packet[l].bad
            /\ (hpc[l] \in {"emit", "done"} /\ Matched(l))
                  => CountOp(l, "log_packet") = 1
            /\ hpc[l] \in {"idle", "emit", "done"}
                  => tally[l].records = tally[l].matched)
    /\ [][\A l \in Loops :
            /\ (socketio = None /\ hpc[l] = "emit" /\ hpc'[l] # "emit") =>
                  /\ hpc'[l] = "done"
                  /\ calls'[l] = calls[l]
                  /\ tally'[l] = tally[l]
                  /\ lpc'[l] = "handle"
            /\ (socketio = None /\ hpc[l] = "done" /\ hpc'[l] # "done") =>
                  /\ hpc'[l] = "idle"
                  /\ lpc'[l] = AfterPacket(l)]_vars

\* C36 witness: nothing was injected and the sink is through with its
\* second matched frame: log_packet was called for both, emit for none
SecondFrameRecordedUnpublished ==
    \E l \in Loops :
        /\ socketio = None
        /\ hpc[l] = "done" /\ Matched(l)
        /\ nFrames[l] = 2 /\ tally[l].matched = 2
        /\ tally[l].records = 2 /\ tally[l].publishes = 0
        /\ CountOp(l, "log_packet") = 1


\* C37: the disconnect that leaves "cast = _cast; _cast = None" takes
\* whatever is stored and leaves None behind, each disconnect at that block
\* passes it in a step of its own, and only a disconnect that took an
\* object goes on to the teardown (stop_monitor, quit_app, disconnect); so
\* of several concurrent disconnects at most one gets the stored object,
\* and one that finds None answers success and changes nothing.
OneDisconnectTearsDown ==
    [][\A c \in Callers :
          /\ (rpc[c] = "disc_swap" /\ rpc'[c] # "disc_swap") =>
                /\ cast' = None
                /\ \A d \in Callers \ {c} : rpc'[d] = rpc[d]
                /\ IF cast = None
                   THEN /\ rpc'[c] = "idle"
                        /\ resp'[c].code = 200
                        /\ castVars' = castVars
                        /\ monVars' = monVars
                   ELSE rpc'[c] = "disc_stop"
          /\ (rpc[c] # "disc_stop" /\ rpc'[c] = "disc_stop") =>
                /\ rpc[c] = "disc_swap"
                /\ cast # None
          /\ (rpc[c] # "disc_stopping" /\ rpc'[c] = "disc_stopping") =>
                rpc[c] = "disc_stop"]_vars

\* C37 witness: of three requests, a connect and two disconnects, one
\* disconnect is in its teardown and the other, come from the thread whose
\* connect had started the monitor, has found no object and answered success
SecondDisconnectFoundNone ==
    \E c \in Callers : \E d \in Callers \ {c} :
        /\ rpc[c] = "disc_stopping"
        /\ req[d] = "disconnect" /\ rpc[d] = "idle"
        /\ resp[d].code = 200
        /\ ret[d] = "True"
        /\ cast = None
        /\ nRequests = 3


TypeOK ==
    /\ monitorThread \in 0..MaxLoops
    /\ stopEvent \in 0..MaxLoops
    /\ stateLock \in {None} \cup Callers
    /\ nLoops \in 0..MaxLoops
    /\ nCalls \in 0..MaxCalls
    /\ \A l \in Loops : lTimer[l] \in 0..RETRY_BACKOFF
    /\ \A c \in Callers : joinLeft[c] \in 0..DefaultStopTimeout
    /\ socketio \in {None, TheSocketIO}
    /\ \A l \in Loops :
          /\ packet[l] \in Frames \cup {NoPacket}
          /\ hpc[l] \in {"idle", "parse", "db", "emit", "done"}
          /\ nFrames[l] \in 0..MaxFrames
          /\ Len(calls[l]) <= 4
          /\ tally[l].matched \in 0..MaxFrames
          /\ tally[l].records \in 0..MaxFrames
          /\ tally[l].publishes \in 0..MaxFrames
          /\ loopLog[l].permission \in 0..1
          /\ loopLog[l].retry \in 0..MaxRetries
    /\ cast \in {None, TheCast}
    /\ castPageSent \in BOOLEAN
    /\ currentText \in
          {<<>>} \cup {Strip(TextOf(Json(b).value)) : b \in Bodies}
    /\ activeSessionId \in {None} \cup DbSessionIds
    /\ nSessions \in 0..MaxRequests
    /\ nMessages \in 0..MaxRequests
    /\ tvCalls \in 0..(2 * MaxRequests)
    /\ tvOn \in BOOLEAN
    /\ dbUp \in BOOLEAN
    /\ nRequests \in 0..MaxRequests
    /\ \A c \in Callers :
          /\ rpc[c] \in {"idle", "gs_check", "gs_create", "gs_write",
                         "gs_running", "gs_running_locked", "gs_args",
                         "gs_start", "gs_start_locked", "gs_return",
                         "disc_swap", "disc_stop", "disc_stopping",
                         "send_validate",
                         "send_cast", "text_read"}
          /\ req[c] \in {"none", "connect", "disconnect", "send", "text"}
          /\ body[c] \in Bodies
          /\ sess[c] \in {None} \cup DbSessionIds
          /\ resp[c].code \in {0, 200, 400, 500, 503}
          /\ resp[c].message_id \in 0..MaxRequests
          /\ lmpc[c] \in {"idle", "added", "loaded"}
          /\ lmSeen[c] \in 0..(MaxMessages + NumCallers)
    /\ totalMessages \in 0..(MaxMessages + NumCallers)
    /\ messageRows \in 0..(MaxMessages + NumCallers)
    /\ Len(packetLogs) <= MaxPackets
    /\ \A i \in 1..Len(packetLogs) :
          /\ packetLogs[i].id = i
          /\ packetLogs[i].timestamp \in 1..MaxClock
    /\ dbClock \in 1..MaxClock
    /\ spc \in {"idle", "query"}
    /\ stats.code \in {0, 200, 400}
    /\ stats.limit \in 0..MAX_LIMIT
    /\ stats.total_packets \in 0..MaxPackets
====
